---- MODULE Spec2Model ----
(***************************************************************************)
(* Model of the markdown-to-memory pipeline of mem0mind:                   *)
(*   MemoryManager   (src/memory_manager.py)   add_fact, search_memories,  *)
(*                   get_all_memories, reset_memories, chat,               *)
(*                   _call_ollama_api                                      *)
(*   MarkdownProcessor (src/markdown_processor.py) extract_facts_with_llm, *)
(*                   process_file                                          *)
(* The external services (the mem0 backend, the Ollama HTTP API and the    *)
(* file system) are the environment: every call to one of them is a step   *)
(* whose outcome is drawn from the outcomes the service can produce.       *)
(***************************************************************************)
EXTENDS Integers, Sequences, FiniteSets, TLC

(***************************************************************************)
(* Bounds of the model.                                                    *)
(***************************************************************************)
\* largest max_retries argument a caller of add_fact passes
MaxRetriesArg == 3
\* longest completion text the LLM service answers with, in characters
MaxTextLen == 3
\* most sections extract_sections finds in one file
MaxSections == 2
\* most entries extract_conversation_entries finds in one section
MaxEntries == 2
\* most facts the LLM extracts in one run
MaxRunFacts == 2
\* most characters of a markdown document handed to extract_sections
MaxDocLen == 6
\* most characters of a section body handed to extract_conversation_entries
MaxBodyLen == 5
\* most parts of a text parse_date is called with
MaxDateLen == 3
\* largest processing_options.batch_size configured
MaxBatchSize == 3
\* most records one backend search returns
MaxResults == 2
\* largest max_context_memories argument a caller of chat passes
MaxLimitArg == 2
\* most records get_all returns for one user
MaxRecords == 3
\* most directories configured in markdown_directories
MaxDirs == 2
\* most files process_directories finds in all directories together
MaxFiles == 2

(***************************************************************************)
(* Program constants.                                                      *)
(***************************************************************************)
\* add_fact(..., max_retries: int = 3)
DefaultMaxRetries == 3
\* process_file skips entries with len(entry['content'].strip()) < 10
MinContentLen == 10
\* chat_options.get('max_context_memories', 5)
DefaultMaxContext == 5
\* processing_options.get('batch_size', 10)
DefaultBatchSize == 10

(***************************************************************************)
(* Values.                                                                 *)
(***************************************************************************)
\* Python's None where a user_id is expected
NoneUser == "None"
\* user_id arguments a caller passes: absent, the empty string, a name
UserArgs == {NoneUser, "", "alice"}
\* self.user_id: config['processing_options']['user_id'], 'default' if unset
DefaultUsers == {"bruce"}
\* truthiness of a user_id in `user_id or self.user_id`
UserGiven(u) == u # NoneUser /\ u # ""

\* a faulty choice of the user: only None, not the empty string, falls back
\* to the default
MutOnlyNoneIsAbsent(u, dflt) == IF u # NoneUser THEN u ELSE dflt

\* user_id = user_id or self.user_id
EffectiveUser(u, dflt) == IF UserGiven(u) THEN u ELSE dflt

\* Python's None as the value add_fact returns
NoneVal == [kind |-> "None", results |-> 0]
\* the dict memory.add returns, with `results` created records
Returned(n) == [kind |-> "dict", results |-> n]
\* memory.add raising an Exception
Raised == [kind |-> "raise", results |-> 0]
\* len(result['results']) as far as the program looks at it: no record
\* created, or some
CreatedCounts == {0, 1}
\* what one backend add call can do
AddOutcomes == {Raised} \cup {Returned(n) : n \in CreatedCounts}
\* `result and result.get('results')`
HasRecords(r) == r.kind = "dict" /\ r.results > 0

\* a text is a sequence of characters; these are the characters of the model
Chars == {" ", "\n", "a"}
\* the texts of at most n characters
TextsUpTo(n) == UNION {[1..k -> Chars] : k \in 0..n}
\* the literal "Sorry, I couldn't generate a response." of _call_ollama_api,
\* one token that is not whitespace
NoResponseText == <<"Sorry, I couldn't generate a response.">>

\* what one HTTP call to the Ollama API can do: requests.post raises,
\* raise_for_status raises on a non-2xx status, response.json() raises on a
\* body that is not JSON, the JSON has no 'response' key, or it has one
LlmFailure(kind) == [kind |-> kind, text |-> <<>>]
LlmText(t) == [kind |-> "ok", text |-> t]
LlmFailureKinds == {"network", "http_error", "bad_json", "no_response_key"}
LlmOutcomes == {LlmFailure(k) : k \in LlmFailureKinds}
               \cup {LlmText(t) : t \in TextsUpTo(MaxTextLen)}

\* an entry of extract_conversation_entries, as far as process_file looks at
\* it: the length of its stripped content and whether it has a timestamp
ContentLens == {0, MinContentLen - 1, MinContentLen}
Entries == [len : ContentLens, ts : BOOLEAN]
NoEntry == [len |-> 0, ts |-> FALSE]
\* the loop over the entries has not taken an entry
NoEntryTaken == [len |-> -1, llm_calls |-> 0]

\* section['header'] of the i-th section of a file: the headers are told
\* apart by their place in the file
SectionHeader(i) == <<"header", i>>
NoHeader == <<"header", 0>>
\* section headers: the context argument of extract_facts_with_llm
Headers == {SectionHeader(i) : i \in 1..MaxSections}

\* a Python str, and None where a str is expected
Str(t) == [type |-> "str", text |-> t]
NoneStr == [type |-> "None", text |-> <<>>]
\* f"Sorry, I encountered an error: {str(e)}" of chat, for the exception of
\* the given kind
ErrorApology(kind) == <<"Sorry, I encountered an error: ", kind>>

\* queries a caller of chat asks
QueryArgs == {"Where do I live?", "What do I like?"}
\* Python's None where max_context_memories is expected
NoneLimit == -1
\* max_context_memories arguments a caller of chat passes
LimitArgs == {NoneLimit} \cup (0..MaxLimitArg)
\* the 'memory' texts of stored records
MemoryTexts == {<<"a">>, <<"a", "a">>}
\* the sequences over S of at most n elements
SeqsUpTo(S, n) == UNION {[1..k -> S] : k \in 0..n}
\* what one backend search call can do: raise, or return its records
SearchRaised == [kind |-> "raise", results |-> <<>>]
SearchReturned(rs) == [kind |-> "dict", results |-> rs]
SearchOutcomes == {SearchRaised}
                  \cup {SearchReturned(rs) : rs \in SeqsUpTo(MemoryTexts, MaxResults)}
\* Python's None as the value search_memories and get_all_memories return
NoneMemories == [kind |-> "None", results |-> <<>>]

\* ids of stored records
MemoryIds == {"m1", "m2", "m3"}
\* the lists of records get_all can return: distinct ids, in any order
RecordLists == {rs \in SeqsUpTo(MemoryIds, MaxRecords) :
                  \A i, j \in 1..Len(rs) : i # j => rs[i] # rs[j]}
\* what one backend get_all call can do
GetAllOutcomes == {SearchRaised} \cup {SearchReturned(rs) : rs \in RecordLists}

\* the characters of markdown documents
DocChars == {"#", " ", "\n", "a"}
\* the characters of section bodies: "T" stands for a well-formed timestamp
\* of the first grammar of parse_date, such as 3/29/25 9:10 AM, and "U" for
\* one of the third, such as 29 March 2025
BodyChars == {"-", " ", "\n", "a", "T", "U"}
\* the parts of the texts given to parse_date: "a" is text no date pattern
\* matches; "G1", "G2", "G3" are substrings that the first, second and third
\* pattern match and that a format of strptime parses, such as
\* 3/29/25 9:10 AM, 2025-03-29 09:10 and 29 March 2025; "B1", "B2", "B3" are
\* substrings the pattern matches and no format parses, such as
\* 13/29/25 9:10 AM, 2025-13-45 09:10 and 99 Mar 25
DateParts == {"a", "G1", "B1", "G2", "B2", "G3", "B3"}
\* date_patterns, by their place in the list
Grammars == {1, 2, 3}
\* Python's None as the value parse_date returns
NoDate == [kind |-> "None", at |-> 0]
\* the characters [-*] of entry_pattern
BulletChars == {"-", "*"}
\* the header of the section that stands for a document without headers
GeneralHeader == <<"General Facts from File">>

\* a faulty add_fact: the record is written by replacing an existing one
MutAddReplaces == "delete"

\* the operations of the Fact Store the program invokes: self.memory.add,
\* self.memory.search, self.memory.get_all, self.memory.delete
MemoryAdd == "add"
MemorySearch == "search"
MemoryGetAll == "get_all"
MemoryDelete == "delete"

\* what the user types at a confirmation prompt
Answers == {<<"y", "e", "s">>, <<" ", "Y", "E", "S", " ">>, <<"Y", "e", "s">>,
            <<"y">>, <<"n", "o">>, <<>>}
\* no confirmation was asked for
NoAnswer == <<"None">>
\* input() raised EOFError
Eof == <<"EOFError">>
\* what the user types at the prompt of the chat session, after
\* .strip().lower(): a way to quit, 'memories', 'reset', nothing, a question
SessionInputs == {"exit", "memories", "reset", "", "question"}

\* fact texts and metadata handed to add_fact by a direct caller
FactArgs == {<<"a">>, <<"a", "a">>}
MetaArgs == {"None", "{timestamp}"}

VARIABLES
    default_user,   \* self.user_id of the MemoryManager
    af_state,       \* add_fact: "idle", "running", "returned", "raised"
    af_fact,        \* add_fact: the fact argument
    af_user,        \* add_fact: user_id after line 123
    af_meta,        \* add_fact: the metadata argument
    af_max,         \* add_fact: the max_retries argument
    af_attempt,     \* add_fact: the loop variable `attempt`
    af_ret,         \* add_fact: the value returned
    af_outcomes,    \* what each memory.add call of this add_fact did, in order
    af_sleeps,      \* time.sleep(2) calls of this add_fact
    add_users,      \* the user_id values memory.add has been called with
    ef_state,       \* extract_facts_with_llm: "idle", "running", "returned", "raised"
    ef_context,     \* extract_facts_with_llm: the context argument
    ef_content,     \* extract_facts_with_llm: the content argument, as the
                    \*   length of the stripped content
    ef_ts,          \* extract_facts_with_llm: is the timestamp argument set
    ef_ret,         \* extract_facts_with_llm: the list of facts returned
    ef_llm_calls,   \* HTTP calls to the LLM made by this extract_facts_with_llm
    llm_last,       \* what the last HTTP call to the LLM did (its kind)
    ef_template,    \* extract_facts_with_llm: did get_prompt return the template
    ef_prompt,      \* extract_facts_with_llm: the prompt sent to the LLM
    pf_state,       \* process_file: "idle", "start", "sections", "entries",
                    \*   "facts", "adding", "returned"
    pf_arg_user,    \* process_file: the user_id argument
    pf_user,        \* process_file: user_id after line 292
    pf_si,          \* process_file: sections the outer loop has taken
    pf_header,      \* process_file: section_header of the current section
    pf_ei,          \* process_file: entries the loop has taken
    pf_entry,       \* process_file: the current entry
    pf_facts,       \* process_file: facts of the current entry
    pf_fi,          \* process_file: facts the inner loop has finished
    total_facts,    \* process_file: total_facts
    added_facts,    \* process_file: added_facts
    pf_ret,         \* process_file: the pair returned
    run_extracted,  \* facts extract_facts_with_llm has returned in this run
    run_invoked,    \* add_fact invocations of this run
    run_created,    \* add_fact results of this run with at least one record
    run_failed,     \* has an add_fact of this run returned None
    run_llm_called, \* has an LLM extraction call been made in this run
    run_read_failed, \* has reading a file failed in this run
    run_entry,      \* the entry the loop of process_file took last: the length
                    \*   of its stripped content and the LLM calls made for it
    run_last_add,   \* section, entry and fact of the last add_fact call made
                    \*   for the file being processed
    batch_size,     \* config: processing_options.batch_size
    pd_state,       \* process_directories: "idle", "enumerate", "files",
                    \*   "in_file", "returned"
    pd_arg_user,    \* process_directories: the user_id argument
    pd_user,        \* process_directories: user_id after line 375
    pd_di,          \* process_directories: directories the first loop has taken
    pd_nfiles,      \* process_directories: len(all_files)
    pd_i,           \* process_directories: files the second loop has taken
    pd_total,       \* process_directories: total_facts
    pd_added,       \* process_directories: added_facts
    pd_delays,      \* process_directories: batch delays slept
    pd_ret,         \* process_directories: the triple returned
    pd_calls,       \* process_file invocations made by process_directories
    pd_sum,         \* the sum of the pairs those invocations returned
    pd_found,       \* markdown files under the configured paths that are directories
    pd_skipped,     \* was a configured path missing or no directory
    ch_state,       \* chat: "idle", "running", "searched", "returned", "raised"
    ch_query,       \* chat: the query argument
    ch_arg_user,    \* chat: the user_id argument
    ch_user,        \* chat: user_id after line 257
    ch_arg_limit,   \* chat: the max_context_memories argument
    ch_limit,       \* chat: max_context_memories after line 258
    ch_memories,    \* chat: what search_memories returned
    ch_prompt,      \* chat: the prompt sent to the LLM
    ch_llm,         \* chat: what the HTTP call to the LLM did
    ch_ret,         \* chat: the value returned
    search_calls,   \* the memory.search calls made: query, user_id, limit
    search_failed,  \* has a memory.search call raised
    llm_calls,      \* HTTP calls to the LLM made by chat
    rs_state,       \* reset_memories: "idle", "running", "deleting", "returned"
    rs_user,        \* reset_memories: user_id after line 211
    rs_records,     \* reset_memories: all_memories['results'], as record ids
    rs_i,           \* reset_memories: records the loop has taken
    deleted_count,  \* reset_memories: deleted_count
    rs_ret,         \* reset_memories: the count returned
    getall_calls,   \* the memory.get_all calls made: user_id
    delete_calls,   \* the memory.delete calls made: memory_id and success
    qm_state,       \* search_memories, get_all_memories: "idle", "returned", "raised"
    qm_op,          \* which of the two was invoked last: "search", "get_all"
    qm_args,        \* its arguments
    qm_backend,     \* the backend calls it made
    qm_outcome,     \* what its backend call did
    qm_ret,         \* the value it returned
    md_state,       \* extract_sections: "idle", "returned"
    md_text,        \* extract_sections: the markdown_text argument
    md_sections,    \* extract_sections: the list returned
    en_state,       \* extract_conversation_entries: "idle", "returned"
    en_body,        \* extract_conversation_entries: the section_content argument
    en_entries,     \* extract_conversation_entries: the list returned
    dt_state,       \* parse_date: "idle", "returned", "raised"
    dt_text,        \* parse_date: the date_str argument
    dt_ret,         \* parse_date: the value returned
    store_ops,      \* the operations of the Fact Store invoked so far
    cli_state,      \* memory_app: "idle", "start", "prompt", "confirm",
                    \*   "resetting", "ended"
    cli_cmd,        \* memory_app: args.command, "reset" or "chat"
    cli_user,       \* memory_app: args.user
    cli_force,      \* memory_app: args.force
    cli_answer,     \* memory_app: what input() gave to the last confirmation
    cli_said_yes    \* memory_app: was --force set or a confirmation answered yes

af_vars == <<af_state, af_fact, af_user, af_meta, af_max, af_attempt, af_ret,
             af_outcomes, af_sleeps, add_users>>

ef_vars == <<ef_state, ef_context, ef_content, ef_ts, ef_ret, ef_llm_calls,
             llm_last, ef_template, ef_prompt>>

pf_vars == <<pf_state, pf_arg_user, pf_user, pf_si, pf_header, pf_ei,
             pf_entry, pf_facts, pf_fi, total_facts, added_facts, pf_ret>>

run_vars == <<run_extracted, run_invoked, run_created, run_failed,
              run_llm_called, run_read_failed, run_last_add, run_entry>>

pd_vars == <<pd_state, pd_arg_user, pd_user, pd_di, pd_nfiles, pd_i, pd_total,
             pd_added, pd_delays, pd_ret,
             pd_calls, pd_sum, pd_found, pd_skipped>>

config_vars == <<default_user, batch_size>>

ch_vars == <<ch_state, ch_query, ch_arg_user, ch_user, ch_arg_limit, ch_limit,
             ch_memories, ch_prompt, ch_llm, ch_ret, search_calls, search_failed,
             llm_calls>>

rs_vars == <<rs_state, rs_user, rs_records, rs_i, deleted_count, rs_ret,
             getall_calls, delete_calls>>

\* the variables of the markdown pipeline
pipeline_vars == <<af_vars, ef_vars, pf_vars, run_vars, pd_vars>>

qm_vars == <<qm_state, qm_op, qm_args, qm_backend, qm_outcome, qm_ret>>

\* the variables of the parsing functions called on their own
parse_vars == <<md_state, md_text, md_sections, en_state, en_body, en_entries,
               dt_state, dt_text, dt_ret>>

\* the record of what was asked of the Fact Store
store_vars == <<store_ops>>

cli_vars == <<cli_state, cli_cmd, cli_user, cli_force, cli_answer, cli_said_yes>>

vars == <<config_vars, pipeline_vars, ch_vars, rs_vars, qm_vars, parse_vars,
          store_vars, cli_vars>>

(***************************************************************************)
(* Text operations: str.strip and str.split('\n').                         *)
(***************************************************************************)
IsSpace(c) == c \in {" ", "\n"}

RECURSIVE LStrip(_)
LStrip(t) ==
    IF t = <<>> THEN <<>>
    ELSE IF IsSpace(Head(t)) THEN LStrip(Tail(t)) ELSE t

RECURSIVE RStrip(_)
RStrip(t) ==
    IF t = <<>> THEN <<>>
    ELSE IF IsSpace(t[Len(t)]) THEN RStrip(SubSeq(t, 1, Len(t) - 1)) ELSE t

\* str.strip()
Strip(t) == RStrip(LStrip(t))

\* str.split('\n'): the pieces between newlines, empty pieces included
RECURSIVE SplitLines(_)
SplitLines(t) ==
    IF \A i \in 1..Len(t) : t[i] # "\n" THEN <<t>>
    ELSE LET i == CHOOSE j \in 1..Len(t) :
                    t[j] = "\n" /\ \A k \in 1..(j - 1) : t[k] # "\n"
         IN <<SubSeq(t, 1, i - 1)>> \o SplitLines(SubSeq(t, i + 1, Len(t)))

\* [f(x) for x in xs]
StripAll(lines) == [i \in 1..Len(lines) |-> Strip(lines[i])]
NonEmpty(t) == t # <<>>

\* '\n'.join(lines)
RECURSIVE JoinLines(_)
JoinLines(lines) ==
    IF lines = <<>> THEN <<>>
    ELSE IF Len(lines) = 1 THEN lines[1]
    ELSE lines[1] \o <<"\n">> \o JoinLines(Tail(lines))

(***************************************************************************)
(* MarkdownProcessor.extract_sections                                      *)
(***************************************************************************)
\* the length of the longest prefix of t made of characters of S
RECURSIVE RunOf(_, _)
RunOf(t, S) ==
    IF t = <<>> \/ Head(t) \notin S THEN 0 ELSE 1 + RunOf(Tail(t), S)

\* re.match(r'^(#{1,3})\s+(.+)$', line): one to three '#', then whitespace,
\* then at least one character, which the whitespace gives up when nothing
\* else follows it; group 2 is stripped
HeaderMatch(line) ==
    LET h == RunOf(line, {"#"})
        w == RunOf(SubSeq(line, h + 1, Len(line)), {" "})
        rest == SubSeq(line, h + w + 1, Len(line))
    IN [matched |-> h \in 1..3 /\ w >= 1 /\ (rest # <<>> \/ w >= 2),
        level |-> h,
        header |-> Strip(rest)]

\* the dict appended to `sections`
Section(level, header, content) ==
    [level |-> level, header |-> header, content |-> content]

\* no section is open: current_section is None
NoSection == [open |-> FALSE, level |-> 0, header |-> <<>>]

\* `for line in lines`, from line i on: a header line closes the open
\* section and opens the next, any other line joins the open section and is
\* dropped when none is open; the section open at the end is appended
RECURSIVE SplitFrom(_, _, _, _, _)
SplitFrom(lines, i, current, content, sections) ==
    IF i > Len(lines)
    THEN IF current.open
         THEN Append(sections,
                     Section(current.level, current.header, JoinLines(content)))
         ELSE sections
    ELSE LET m == HeaderMatch(lines[i]) IN
           IF m.matched
           THEN SplitFrom(lines, i + 1,
                          [open |-> TRUE, level |-> m.level, header |-> m.header],
                          <<>>,
                          IF current.open
                          THEN Append(sections,
                                      Section(current.level, current.header,
                                              JoinLines(content)))
                          ELSE sections)
           ELSE SplitFrom(lines, i + 1, current,
                          IF current.open THEN Append(content, lines[i]) ELSE content,
                          sections)

\* a faulty fallback: a document without headers yields no section
MutNoImplicitSection(text) == <<>>

\* `elif not sections and markdown_text.strip()`: a document in which no
\* header was found is one section of level 0, unless it is blank
ImplicitSection(text) ==
    IF Strip(text) # <<>>
    THEN <<Section(0, GeneralHeader, Strip(text))>>
    ELSE <<>>

\* extract_sections(markdown_text)
ExtractSections(text) ==
    LET lines == SplitLines(text)
        found == SplitFrom(lines, 1, NoSection, <<>>, <<>>)
    IN IF \E i \in 1..Len(lines) : HeaderMatch(lines[i]).matched
       THEN found
       ELSE ImplicitSection(text)

(***************************************************************************)
(* MarkdownProcessor.parse_date                                            *)
(***************************************************************************)
\* the pattern of date_patterns that matches the part, 0 for none
GrammarOf(part) ==
    CASE part \in {"G1", "B1"} -> 1
      [] part \in {"G2", "B2"} -> 2
      [] part \in {"G3", "B3"} -> 3
      [] OTHER -> 0

\* one of the formats makes datetime.strptime return for the matched text
Parses(part) == part \in {"G1", "G2", "G3"}

\* re.search(pattern, date_str): the place of the leftmost match of the
\* g-th pattern, 0 when the pattern does not match
FirstMatch(text, g) ==
    IF \E i \in 1..Len(text) : GrammarOf(text[i]) = g
    THEN CHOOSE i \in 1..Len(text) :
           /\ GrammarOf(text[i]) = g
           /\ \A k \in 1..(i - 1) : GrammarOf(text[k]) # g
    ELSE 0

\* the datetime strptime makes of the matched text at place i
DateAt(i) == [kind |-> "datetime", at |-> i]

\* a faulty loop: the first pattern that matches decides, and None is
\* returned when no format parses its match
RECURSIVE MutFirstMatchDecides(_, _)
MutFirstMatchDecides(text, g) ==
    IF g \notin Grammars THEN NoDate
    ELSE LET i == FirstMatch(text, g) IN
           IF i # 0
           THEN IF Parses(text[i]) THEN DateAt(i) ELSE NoDate
           ELSE MutFirstMatchDecides(text, g + 1)

\* `for pattern in date_patterns` from the g-th pattern on: when the pattern
\* matches and a format parses the match, its datetime is returned; when no
\* format parses it, every strptime raised ValueError and the loop goes on
\* with the next pattern; after the last pattern None is returned
RECURSIVE TryPatterns(_, _)
TryPatterns(text, g) ==
    IF g \notin Grammars THEN NoDate
    ELSE LET i == FirstMatch(text, g) IN
           IF i # 0 /\ Parses(text[i])
           THEN DateAt(i)
           ELSE TryPatterns(text, g + 1)

\* a caller invokes parse_date
ParseDateCall ==
    /\ dt_state = "idle"
    /\ dt_state' = "returned"
    /\ \E text \in SeqsUpTo(DateParts, MaxDateLen) :
         /\ dt_text' = text
         /\ dt_ret' = TryPatterns(text, 1)
    /\ UNCHANGED <<md_state, md_text, md_sections, en_state, en_body, en_entries>>

(***************************************************************************)
(* MarkdownProcessor.extract_conversation_entries                          *)
(***************************************************************************)
\* parse_date(text) is not None: the text holds a timestamp
ParseDate(text) == \E i \in 1..Len(text) : text[i] \in {"T", "U"}

\* re.split(<first grammar>[:\s]*, text, 1): the part after the first
\* timestamp of the first grammar and the separators that follow it; with
\* no such timestamp the split has one part
ContentParts(text) ==
    IF \E i \in 1..Len(text) : text[i] = "T"
    THEN LET i == CHOOSE j \in 1..Len(text) :
                    text[j] = "T" /\ \A k \in 1..(j - 1) : text[k] # "T"
             after == SubSeq(text, i + 1, Len(text))
         IN <<SubSeq(text, 1, i - 1),
              SubSeq(after, RunOf(after, {":", " ", "\n"}) + 1, Len(after))>>
    ELSE <<text>>

\* the dict appended to `entries` for the text of a bullet
EntryOf(entry_text) ==
    IF ParseDate(entry_text)
    THEN [timestamp |-> TRUE,
          content |-> IF Len(ContentParts(entry_text)) > 1
                      THEN Strip(ContentParts(entry_text)[2])
                      ELSE entry_text]
    ELSE [timestamp |-> FALSE, content |-> entry_text]

\* the lookahead (?=\n[-*]|\n\n|\n$|$) holds at position j of the text
Lookahead(text, j) ==
    \/ j = Len(text) + 1
    \/ /\ j <= Len(text)
       /\ text[j] = "\n"
       /\ \/ j = Len(text)
          \/ text[j + 1] \in BulletChars
          \/ text[j + 1] = "\n"

\* re.finditer(entry_pattern, text, re.DOTALL) from position pos on: the
\* next [-*], the whitespace after it, and group 1 up to the first position
\* where the lookahead holds; the search goes on from there
RECURSIVE BulletTexts(_, _)
BulletTexts(text, pos) ==
    IF \A i \in pos..Len(text) : text[i] \notin BulletChars THEN <<>>
    ELSE LET i == CHOOSE j \in pos..Len(text) :
                    text[j] \in BulletChars
                    /\ \A k \in pos..(j - 1) : text[k] \notin BulletChars
             rest == SubSeq(text, i + 1, Len(text))
             s == i + 1 + RunOf(rest, {" ", "\n"})
             e == CHOOSE j \in s..(Len(text) + 1) :
                    Lookahead(text, j)
                    /\ \A k \in s..(j - 1) : ~Lookahead(text, k)
         IN <<SubSeq(text, s, e - 1)>> \o BulletTexts(text, e)

\* the entries of the bullets: match.group(1).strip() and its timestamp
BulletEntries(text) ==
    LET groups == BulletTexts(text, 1)
    IN [i \in 1..Len(groups) |-> EntryOf(Strip(groups[i]))]

\* `if not entries and section_content.strip()`: every line that is not
\* blank is an entry without timestamp
LineEntries(text) ==
    LET lines == SelectSeq(StripAll(SplitLines(Strip(text))), NonEmpty)
    IN [i \in 1..Len(lines) |-> [timestamp |-> FALSE, content |-> lines[i]]]

\* extract_conversation_entries(section_content)
ExtractConversationEntries(text) ==
    IF BulletEntries(text) = <<>> /\ Strip(text) # <<>>
    THEN LineEntries(text)
    ELSE BulletEntries(text)

\* a caller invokes extract_conversation_entries
ExtractEntriesCall ==
    /\ en_state = "idle"
    /\ en_state' = "returned"
    /\ \E body \in SeqsUpTo(BodyChars, MaxBodyLen) :
         /\ en_body' = body
         /\ en_entries' = ExtractConversationEntries(body)
    /\ UNCHANGED <<md_state, md_text, md_sections, dt_state, dt_text, dt_ret>>

\* the parsing functions were not called yet
ParseIdle ==
    /\ md_state = "idle"
    /\ md_text = <<>>
    /\ md_sections = <<>>
    /\ en_state = "idle"
    /\ en_body = <<>>
    /\ en_entries = <<>>
    /\ dt_state = "idle"
    /\ dt_text = <<>>
    /\ dt_ret = NoDate

\* a caller invokes extract_sections
ExtractSectionsCall ==
    /\ md_state = "idle"
    /\ md_state' = "returned"
    /\ \E text \in SeqsUpTo(DocChars, MaxDocLen) :
         /\ md_text' = text
         /\ md_sections' = ExtractSections(text)
    /\ UNCHANGED <<en_state, en_body, en_entries, dt_state, dt_text, dt_ret>>

(***************************************************************************)
(* MemoryManager.add_fact                                                  *)
(***************************************************************************)
\* the frame of add_fact before any call
AfIdle ==
    /\ af_state = "idle"
    /\ af_fact = <<>>
    /\ af_user = NoneUser
    /\ af_meta = "None"
    /\ af_max = 0
    /\ af_attempt = 0
    /\ af_ret = NoneVal
    /\ af_outcomes = <<>>
    /\ af_sleeps = 0
    /\ add_users = {}

\* entering add_fact: the arguments are bound and line 123 picks the user
AfEnter(fact, user, meta, max_retries) ==
    /\ af_state' = "running"
    /\ af_fact' = fact
    /\ af_user' = EffectiveUser(user, default_user)
    /\ af_meta' = meta
    /\ af_max' = max_retries
    /\ af_attempt' = 0
    /\ af_ret' = NoneVal
    /\ af_outcomes' = <<>>
    /\ af_sleeps' = 0

\* `for attempt in range(max_retries)`: is there an iteration for `attempt`
InRange(attempt, max_retries) == attempt < max_retries

\* a faulty loop body: a call that does not raise is followed by another
\* attempt while attempts are left
MutNoReturnOnSuccess(attempt, max_retries, outcome) ==
    IF attempt < max_retries - 1
    THEN [state |-> "running", ret |-> NoneVal, attempt |-> attempt + 1,
          slept |-> outcome.kind = "raise"]
    ELSE [state |-> "returned",
          ret |-> IF outcome.kind = "dict" THEN outcome ELSE NoneVal,
          attempt |-> attempt, slept |-> FALSE]

\* a faulty loop body: a result without records is retried like an exception
MutRetryOnEmpty(attempt, max_retries, outcome) ==
    IF outcome.kind = "dict" /\ HasRecords(outcome)
    THEN [state |-> "returned", ret |-> outcome, attempt |-> attempt, slept |-> FALSE]
    ELSE IF attempt < max_retries - 1
         THEN [state |-> "running", ret |-> NoneVal, attempt |-> attempt + 1, slept |-> TRUE]
         ELSE [state |-> "returned", ret |-> NoneVal, attempt |-> attempt, slept |-> FALSE]

\* a faulty loop body: the exception of the last attempt reaches the caller
MutRaiseWhenExhausted(attempt, max_retries, outcome) ==
    IF outcome.kind = "dict"
    THEN [state |-> "returned", ret |-> outcome, attempt |-> attempt, slept |-> FALSE]
    ELSE IF attempt < max_retries - 1
         THEN [state |-> "running", ret |-> NoneVal, attempt |-> attempt + 1, slept |-> TRUE]
         ELSE [state |-> "raised", ret |-> NoneVal, attempt |-> attempt, slept |-> FALSE]

\* a faulty loop body: the delay is slept after the last failed attempt too
MutSleepAfterLastFailure(attempt, max_retries, outcome) ==
    IF outcome.kind = "dict"
    THEN [state |-> "returned", ret |-> outcome, attempt |-> attempt, slept |-> FALSE]
    ELSE IF attempt < max_retries - 1
         THEN [state |-> "running", ret |-> NoneVal, attempt |-> attempt + 1, slept |-> TRUE]
         ELSE [state |-> "returned", ret |-> NoneVal, attempt |-> attempt, slept |-> TRUE]

\* one iteration of the retry loop, given what memory.add did:
\* the state add_fact is in afterwards, the value it returned, the next
\* value of `attempt` and whether it slept
AddFactIteration(attempt, max_retries, outcome) ==
    IF outcome.kind = "dict"
    THEN IF HasRecords(outcome)
         THEN [state |-> "returned", ret |-> outcome, attempt |-> attempt, slept |-> FALSE]
         ELSE [state |-> "returned", ret |-> outcome, attempt |-> attempt, slept |-> FALSE]
    ELSE IF attempt < max_retries - 1
         THEN [state |-> "running", ret |-> NoneVal, attempt |-> attempt + 1, slept |-> TRUE]
         ELSE [state |-> "returned", ret |-> NoneVal, attempt |-> attempt, slept |-> FALSE]

\* one pass through the loop body: memory.add is called once and answers
AfAttempt ==
    /\ af_state = "running"
    /\ InRange(af_attempt, af_max)
    /\ \E outcome \in AddOutcomes :
         LET next == AddFactIteration(af_attempt, af_max, outcome) IN
           /\ af_outcomes' = Append(af_outcomes, outcome)
           /\ add_users' = add_users \cup {af_user}
           /\ af_state' = next.state
           /\ af_ret' = next.ret
           /\ af_attempt' = next.attempt
           /\ af_sleeps' = IF next.slept THEN af_sleeps + 1 ELSE af_sleeps
    /\ store_ops' = store_ops \cup {MemoryAdd}
    /\ UNCHANGED <<af_fact, af_user, af_meta, af_max>>

\* the loop ends without a return statement: the function returns None
AfFallThrough ==
    /\ af_state = "running"
    /\ ~InRange(af_attempt, af_max)
    /\ af_state' = "returned"
    /\ af_ret' = NoneVal
    /\ UNCHANGED <<af_fact, af_user, af_meta, af_max, af_attempt, af_outcomes,
                   af_sleeps, add_users>>

\* a caller invokes add_fact directly
AddFactCall ==
    /\ af_state = "idle"
    /\ \E fact \in FactArgs, user \in UserArgs, meta \in MetaArgs,
          max_retries \in 0..MaxRetriesArg :
         AfEnter(fact, user, meta, max_retries)
    /\ UNCHANGED add_users

(***************************************************************************)
(* MemoryManager._call_ollama_api                                          *)
(***************************************************************************)
\* the outcome of _call_ollama_api for what the HTTP call did: it raises, or
\* it returns a text
CallOllamaApi(outcome) ==
    IF outcome.kind \in {"network", "http_error", "bad_json"}
    THEN [raised |-> TRUE, text |-> <<>>]
    ELSE IF outcome.kind = "ok"
         THEN [raised |-> FALSE, text |-> Strip(outcome.text)]
         ELSE [raised |-> FALSE, text |-> NoResponseText]

(***************************************************************************)
(* MarkdownProcessor.extract_facts_with_llm                                *)
(***************************************************************************)
\* [fact.strip() for fact in response.strip().split('\n') if fact.strip()]
FactsOfResponse(response) ==
    SelectSeq(StripAll(SplitLines(Strip(response))), NonEmpty)

\* the list extract_facts_with_llm returns for what the HTTP call did
ExtractFactsWithLlm(outcome) ==
    LET response == CallOllamaApi(outcome) IN
      IF response.raised THEN <<>> ELSE FactsOfResponse(response.text)

\* the lists extract_facts_with_llm can return, over all the LLM can do
ExtractResults == {ExtractFactsWithLlm(outcome) : outcome \in LlmOutcomes}

\* the annotation f"This information was recorded on {timestamp...}."
TimeAnnotation == "This information was recorded on {timestamp}."

\* a faulty annotation: the recording time is mentioned for every entry
MutAlwaysAnnotated(ts) == TimeAnnotation

\* time_context: the annotation when the entry has a timestamp, "" otherwise
TimeContext(ts) == IF ts THEN TimeAnnotation ELSE ""

\* a prompt, as the values that were written into it; NoHeader and -1 stand
\* for a context and a content that are not part of the prompt
Prompt(kind, context, time_context, content) ==
    [kind |-> kind, context |-> context, time_context |-> time_context,
     content |-> content]

\* the template extraction/markdown_facts with its variables substituted:
\* instructions, the context, the time context and the content
MarkdownFactsPrompt(context, time_context, content) ==
    Prompt("markdown_facts", context, time_context, content)

\* the prompt extract_facts_with_llm builds: the template of the prompt
\* manager, or, when get_prompt raises, f"Extract key facts from: {content}"
ExtractionPrompt(template_ok, context, ts, content) ==
    IF template_ok
    THEN MarkdownFactsPrompt(context, TimeContext(ts), content)
    ELSE Prompt("Extract key facts from: ", NoHeader, "", content)

\* the frame of extract_facts_with_llm before any call
EfIdle ==
    /\ ef_state = "idle"
    /\ ef_context = NoHeader
    /\ ef_content = 0
    /\ ef_ts = FALSE
    /\ ef_ret = <<>>
    /\ ef_llm_calls = 0
    /\ llm_last = "none"
    /\ ef_template = FALSE
    /\ ef_prompt = Prompt("none", NoHeader, "", -1)

\* extract_facts_with_llm from entry to return: the prompt is built, the LLM
\* is called once through _call_ollama_api and the answer is split
EfRun(context, content, ts, template_ok, outcome) ==
    /\ ef_template' = template_ok
    /\ ef_prompt' = ExtractionPrompt(template_ok, context, ts, content)
    /\ ef_context' = context
    /\ ef_content' = content
    /\ ef_ts' = ts
    /\ ef_llm_calls' = 1
    /\ llm_last' = outcome.kind
    /\ ef_ret' = ExtractFactsWithLlm(outcome)
    /\ ef_state' = "returned"

\* a caller invokes extract_facts_with_llm directly
ExtractCall ==
    /\ ef_state = "idle"
    /\ \E context \in Headers, content \in ContentLens, ts \in BOOLEAN,
          template_ok \in BOOLEAN, outcome \in LlmOutcomes :
         EfRun(context, content, ts, template_ok, outcome)

(***************************************************************************)
(* MarkdownProcessor.process_file                                          *)
(***************************************************************************)
\* the frame of process_file before any call
PfIdle ==
    /\ pf_state = "idle"
    /\ pf_arg_user = NoneUser
    /\ pf_user = NoneUser
    /\ pf_si = 0
    /\ pf_header = NoHeader
    /\ pf_ei = 0
    /\ pf_entry = NoEntry
    /\ pf_facts = <<>>
    /\ pf_fi = 0
    /\ total_facts = 0
    /\ added_facts = 0
    /\ pf_ret = <<0, 0>>

\* the counters of a run before it starts
RunIdle ==
    /\ run_extracted = 0
    /\ run_invoked = 0
    /\ run_created = 0
    /\ run_failed = FALSE
    /\ run_llm_called = FALSE
    /\ run_read_failed = FALSE
    /\ run_last_add = <<0, 0, 0>>
    /\ run_entry = NoEntryTaken

\* entering process_file: line 292 picks the user
PfEnter(user) ==
    /\ pf_state' = "start"
    /\ pf_arg_user' = user
    /\ pf_user' = EffectiveUser(user, default_user)
    /\ pf_si' = 0
    /\ pf_header' = NoHeader
    /\ pf_ei' = 0
    /\ pf_entry' = NoEntry
    /\ pf_facts' = <<>>
    /\ pf_fi' = 0
    /\ total_facts' = 0
    /\ added_facts' = 0
    /\ pf_ret' = <<0, 0>>

\* the frame of process_file is left: its variables are dead
PfLeave ==
    /\ pf_state' = "idle"
    /\ pf_arg_user' = NoneUser
    /\ pf_user' = NoneUser
    /\ pf_si' = 0
    /\ pf_header' = NoHeader
    /\ pf_ei' = 0
    /\ pf_entry' = NoEntry
    /\ pf_facts' = <<>>
    /\ pf_fi' = 0
    /\ total_facts' = 0
    /\ added_facts' = 0
    /\ pf_ret' = <<0, 0>>

\* a faulty filter: only entries without content are skipped
MutSkipOnlyEmpty(entry) == entry.len = 0

\* `if not entry['content'] or len(entry['content'].strip()) < 10: continue`
SkipEntry(entry) == entry.len = 0 \/ entry.len < MinContentLen

\* a faulty process_file: the metadata of every fact holds a timestamp
MutMetadataAlwaysStamped(entry) == "{timestamp}"

\* the metadata process_file hands to add_fact for a fact of `entry`: the
\* dict with the key "timestamp" (entry['timestamp'].isoformat()) when the
\* entry has a timestamp, the empty dict otherwise
MetadataOf(entry) == IF entry.ts THEN "{timestamp}" ELSE "{}"

\* `if result and result.get('results'): added_facts += 1`
AddedAfter(added, result) == IF HasRecords(result) THEN added + 1 ELSE added

\* a faulty process_file: the exception of open() reaches the caller
MutReadErrorEscapes(readable) ==
    IF readable
    THEN [state |-> "sections", ret |-> <<0, 0>>]
    ELSE [state |-> "raised", ret |-> <<0, 0>>]

\* where process_file goes after `with open(...)`: into the loop over the
\* sections when the file was read, and into the except clause, which returns
\* (0, 0), when open() or f.read() raised
AfterOpen(readable) ==
    IF readable
    THEN [state |-> "sections", ret |-> <<0, 0>>]
    ELSE [state |-> "returned", ret |-> <<0, 0>>]

\* open() or f.read() raises: the except clause returns (0, 0)
PfReadFails ==
    /\ pf_state = "start"
    /\ pf_state' = AfterOpen(FALSE).state
    /\ pf_ret' = AfterOpen(FALSE).ret
    /\ run_read_failed' = TRUE
    /\ UNCHANGED <<pf_arg_user, pf_user, pf_si, pf_header, pf_ei, pf_entry,
                   pf_facts, pf_fi, total_facts, added_facts>>
    /\ UNCHANGED <<af_vars, ef_vars, run_extracted, run_invoked, run_created,
                   run_failed, run_llm_called, run_last_add, run_entry>>

\* the file is read and extract_sections splits it
PfRead ==
    /\ pf_state = "start"
    /\ pf_si' = 0
    /\ total_facts' = 0
    /\ added_facts' = 0
    /\ pf_state' = AfterOpen(TRUE).state
    /\ UNCHANGED <<pf_arg_user, pf_user, pf_header, pf_ei, pf_entry,
                   pf_facts, pf_fi, pf_ret>>
    /\ UNCHANGED <<af_vars, ef_vars, run_vars>>

\* `for section in sections`: there is a next section, and
\* extract_conversation_entries splits it into its entries
PfNextSection ==
    /\ pf_state = "sections"
    /\ pf_si < MaxSections
    /\ pf_si' = pf_si + 1
    /\ pf_header' = SectionHeader(pf_si + 1)
    /\ pf_ei' = 0
    /\ pf_state' = "entries"
    /\ UNCHANGED <<pf_arg_user, pf_user, pf_entry, pf_facts, pf_fi,
                   total_facts, added_facts, pf_ret>>
    /\ UNCHANGED <<af_vars, ef_vars, run_vars>>

\* no section is left: `return total_facts, added_facts`
PfReturn ==
    /\ pf_state = "sections"
    /\ pf_state' = "returned"
    /\ pf_ret' = <<total_facts, added_facts>>
    /\ run_last_add' = <<0, 0, 0>>
    /\ run_entry' = NoEntryTaken
    /\ UNCHANGED <<pf_arg_user, pf_user, pf_si, pf_header, pf_ei, pf_entry,
                   pf_facts, pf_fi, total_facts, added_facts>>
    /\ UNCHANGED <<af_vars, ef_vars, run_extracted, run_invoked, run_created,
                   run_failed, run_llm_called, run_read_failed>>

\* `for entry in entries`: the next entry is too short and is skipped by
\* `continue`, after which the loop variable is dead
PfSkipEntry ==
    /\ pf_state = "entries"
    /\ pf_ei < MaxEntries
    /\ \E entry \in Entries :
         /\ SkipEntry(entry)
         /\ run_entry' = [len |-> entry.len, llm_calls |-> 0]
    /\ pf_ei' = pf_ei + 1
    /\ UNCHANGED <<pf_state, pf_arg_user, pf_user, pf_si, pf_header,
                   pf_entry, pf_facts, pf_fi, total_facts, added_facts, pf_ret>>
    /\ UNCHANGED <<af_vars, ef_vars, run_extracted, run_invoked, run_created,
                   run_failed, run_llm_called, run_read_failed, run_last_add>>

\* `for entry in entries`: the next entry goes to extract_facts_with_llm,
\* which calls the LLM once and returns within this step
PfExtractEntry ==
    /\ pf_state = "entries"
    /\ pf_ei < MaxEntries
    /\ \E entry \in {e \in Entries : ~SkipEntry(e)}, facts \in ExtractResults :
           /\ run_extracted + Len(facts) <= MaxRunFacts
           /\ pf_entry' = entry
           /\ pf_facts' = facts
           /\ total_facts' = total_facts + Len(facts)
           /\ run_extracted' = run_extracted + Len(facts)
           /\ run_entry' = [len |-> entry.len, llm_calls |-> 1]
    /\ pf_ei' = pf_ei + 1
    /\ pf_fi' = 0
    /\ pf_state' = "facts"
    /\ UNCHANGED <<pf_arg_user, pf_user, pf_si, pf_header,
                   added_facts, pf_ret>>
    /\ run_llm_called' = TRUE
    /\ UNCHANGED <<af_vars, ef_vars, run_invoked, run_created, run_failed,
                   run_read_failed, run_last_add>>

\* the entries of the section are exhausted: back to the loop over sections;
\* the section's variables are dead until the next section assigns them
PfEntriesDone ==
    /\ pf_state = "entries"
    /\ pf_state' = "sections"
    /\ pf_header' = NoHeader
    /\ pf_ei' = 0
    /\ run_entry' = NoEntryTaken
    /\ UNCHANGED <<pf_arg_user, pf_user, pf_si, pf_entry, pf_facts, pf_fi,
                   total_facts, added_facts, pf_ret>>
    /\ UNCHANGED <<af_vars, ef_vars, run_extracted, run_invoked, run_created,
                   run_failed, run_llm_called, run_read_failed, run_last_add>>

\* a faulty loop: the facts of an entry are taken last to first
MutFactsReversed(done, n) == n - done

\* `for fact in facts`: the index of the fact taken when `done` facts of the
\* n are finished
FactIndex(done, n) == done + 1

\* `for fact in facts`: add_fact is called for the next fact
PfAddFact ==
    /\ pf_state = "facts"
    /\ pf_fi < Len(pf_facts)
    /\ LET i == FactIndex(pf_fi, Len(pf_facts)) IN
         /\ AfEnter(pf_facts[i], pf_user, MetadataOf(pf_entry), DefaultMaxRetries)
         /\ run_last_add' = <<pf_si, pf_ei, i>>
    /\ run_invoked' = run_invoked + 1
    /\ pf_state' = "adding"
    /\ UNCHANGED <<pf_arg_user, pf_user, pf_si, pf_header, pf_ei, pf_entry,
                   pf_facts, pf_fi, total_facts, added_facts, pf_ret>>
    /\ UNCHANGED <<add_users, ef_vars, run_extracted, run_created, run_failed,
                   run_llm_called, run_read_failed, run_entry, store_vars>>

\* a faulty process_file: an add_fact that returns None ends the file
MutStopOnFailure(state, result, added, total) ==
    IF state = "raised" \/ result = NoneVal
    THEN [state |-> "returned", added |-> added, ret |-> <<total, added>>, next |-> 0]
    ELSE [state |-> "facts", added |-> AddedAfter(added, result), ret |-> <<0, 0>>,
          next |-> 1]

\* a faulty process_file: every add_fact that returns counts as added
MutCountEveryReturn(state, result, added, total) ==
    IF state = "raised"
    THEN [state |-> "returned", added |-> added, ret |-> <<0, 0>>, next |-> 0]
    ELSE [state |-> "facts",
          added |-> IF result # NoneVal THEN added + 1 ELSE added,
          ret |-> <<0, 0>>, next |-> 1]

\* what process_file does with the end of an add_fact call: count the result
\* and go on with the next fact, or, had add_fact raised, return (0, 0) from
\* the except clause
AfterAddFact(state, result, added, total) ==
    IF state = "raised"
    THEN [state |-> "returned", added |-> added, ret |-> <<0, 0>>, next |-> 0]
    ELSE [state |-> "facts", added |-> AddedAfter(added, result), ret |-> <<0, 0>>,
          next |-> 1]

\* the frame of add_fact is left: its variables are dead
AfLeave ==
    /\ af_state' = "idle"
    /\ af_fact' = <<>>
    /\ af_user' = NoneUser
    /\ af_meta' = "None"
    /\ af_max' = 0
    /\ af_attempt' = 0
    /\ af_ret' = NoneVal
    /\ af_outcomes' = <<>>
    /\ af_sleeps' = 0

\* add_fact has ended: its result is counted and the loop goes on
PfAddReturn ==
    /\ pf_state = "adding"
    /\ af_state \in {"returned", "raised"}
    /\ LET after == AfterAddFact(af_state, af_ret, added_facts, total_facts) IN
         /\ pf_state' = after.state
         /\ added_facts' = after.added
         /\ pf_ret' = after.ret
         /\ pf_fi' = pf_fi + after.next
    /\ run_created' = IF af_state = "returned" /\ HasRecords(af_ret)
                       THEN run_created + 1 ELSE run_created
    /\ run_failed' = (run_failed \/ af_state = "raised" \/ af_ret = NoneVal)
    /\ AfLeave
    /\ UNCHANGED <<pf_arg_user, pf_user, pf_si, pf_header, pf_ei,
                   pf_entry, pf_facts, total_facts>>
    /\ UNCHANGED <<add_users, ef_vars, run_extracted, run_invoked,
                   run_llm_called, run_read_failed, run_last_add, run_entry>>

\* the facts of the entry are exhausted: time.sleep(0.5), next entry; the
\* entry's variables are dead until the next entry assigns them
PfFactsDone ==
    /\ pf_state = "facts"
    /\ pf_fi >= Len(pf_facts)
    /\ pf_state' = "entries"
    /\ pf_entry' = NoEntry
    /\ pf_facts' = <<>>
    /\ pf_fi' = 0
    /\ UNCHANGED <<pf_arg_user, pf_user, pf_si, pf_header, pf_ei,
                   total_facts, added_facts, pf_ret>>
    /\ UNCHANGED <<af_vars, ef_vars, run_vars>>

\* a caller invokes process_file directly
ProcessFileCall ==
    /\ pf_state = "idle"
    /\ pd_state = "idle"
    /\ \E user \in UserArgs : PfEnter(user)
    /\ UNCHANGED <<af_vars, ef_vars, run_vars>>

\* the steps of process_file and of the add_fact calls it makes
PfStep ==
    \/ PfReadFails /\ UNCHANGED store_vars
    \/ PfRead /\ UNCHANGED store_vars
    \/ PfNextSection /\ UNCHANGED store_vars
    \/ PfReturn /\ UNCHANGED store_vars
    \/ PfSkipEntry /\ UNCHANGED store_vars
    \/ PfExtractEntry /\ UNCHANGED store_vars
    \/ PfEntriesDone /\ UNCHANGED store_vars
    \/ PfAddFact
    \/ AfAttempt /\ pf_state = "adding" /\ UNCHANGED <<ef_vars, pf_vars, run_vars>>
    \/ PfAddReturn /\ UNCHANGED store_vars
    \/ PfFactsDone /\ UNCHANGED store_vars

(***************************************************************************)
(* MarkdownProcessor.process_directories                                   *)
(***************************************************************************)
\* the frame of process_directories before any call
PdIdle ==
    /\ pd_state = "idle"
    /\ pd_arg_user = NoneUser
    /\ pd_user = NoneUser
    /\ pd_di = 0
    /\ pd_nfiles = 0
    /\ pd_i = 0
    /\ pd_total = 0
    /\ pd_added = 0
    /\ pd_delays = 0
    /\ pd_ret = <<0, 0, 0>>
    /\ pd_calls = 0
    /\ pd_sum = <<0, 0>>
    /\ pd_found = 0
    /\ pd_skipped = FALSE

\* what a configured path turns out to be
DirKinds == {"missing", "not_dir", "dir"}

\* a caller invokes process_directories: line 375 picks the user
ProcessDirectoriesCall ==
    /\ pd_state = "idle"
    /\ pf_state = "idle"
    /\ \E user \in UserArgs :
         /\ pd_arg_user' = user
         /\ pd_user' = EffectiveUser(user, default_user)
    /\ pd_state' = "enumerate"
    /\ UNCHANGED <<pd_di, pd_nfiles, pd_i, pd_total, pd_added, pd_delays, pd_ret, pd_calls, pd_sum, pd_found, pd_skipped>>
    /\ UNCHANGED <<af_vars, ef_vars, pf_vars, run_vars>>

\* a faulty enumeration: a path that is no directory is globbed all the same
MutGlobNonDirectory(kind, found) == IF kind # "missing" THEN found ELSE 0

\* the files a configured path adds to all_files: none when the path does
\* not exist or is no directory (`continue`), those the globs find otherwise
FilesOf(kind, found) == IF kind = "dir" THEN found ELSE 0

\* `for directory in directories`: the next configured path is skipped when
\* it does not exist or is no directory, and globbed otherwise
PdNextDir ==
    /\ pd_state = "enumerate"
    /\ pd_di < MaxDirs
    /\ pd_di' = pd_di + 1
    /\ \E kind \in DirKinds, found \in 0..MaxFiles :
         /\ pd_nfiles + found <= MaxFiles
         /\ pd_nfiles' = pd_nfiles + FilesOf(kind, found)
         /\ pd_found' = IF kind = "dir" THEN pd_found + found ELSE pd_found
         /\ pd_skipped' = (pd_skipped \/ kind # "dir")
    /\ UNCHANGED <<pd_state, pd_arg_user, pd_user, pd_i, pd_total, pd_added,
                   pd_delays, pd_ret, pd_calls, pd_sum>>
    /\ UNCHANGED <<af_vars, ef_vars, pf_vars, run_vars>>

\* no directory is left and no file was found: `return 0, 0, 0`
PdNoFiles ==
    /\ pd_state = "enumerate"
    /\ pd_nfiles = 0
    /\ pd_state' = "returned"
    /\ pd_ret' = <<0, 0, 0>>
    /\ pd_di' = 0
    /\ UNCHANGED <<pd_arg_user, pd_user, pd_nfiles, pd_i, pd_total, pd_added,
                   pd_delays, pd_calls, pd_sum, pd_found, pd_skipped>>
    /\ UNCHANGED <<af_vars, ef_vars, pf_vars, run_vars>>

\* no directory is left: the counters are set up for the loop over the files
PdEnumerated ==
    /\ pd_state = "enumerate"
    /\ pd_nfiles > 0
    /\ pd_state' = "files"
    /\ pd_di' = 0
    /\ pd_i' = 0
    /\ pd_total' = 0
    /\ pd_added' = 0
    /\ UNCHANGED <<pd_arg_user, pd_user, pd_nfiles, pd_delays, pd_ret, pd_calls, pd_sum, pd_found, pd_skipped>>
    /\ UNCHANGED <<af_vars, ef_vars, pf_vars, run_vars>>

\* `for i, file_path in enumerate(all_files, 1)`: process_file is called
PdProcessFile ==
    /\ pd_state = "files"
    /\ pd_i < pd_nfiles
    /\ pd_i' = pd_i + 1
    /\ PfEnter(pd_user)
    /\ pd_state' = "in_file"
    /\ UNCHANGED <<pd_arg_user, pd_user, pd_di, pd_nfiles, pd_total, pd_added,
                   pd_delays, pd_ret, pd_sum, pd_found, pd_skipped>>
    /\ UNCHANGED <<af_vars, ef_vars, run_vars>>
    /\ pd_calls' = pd_calls + 1

\* a faulty batch test: the files are counted from 0
MutBatchCountsFromZero(i, size) == (i - 1) % size = 0

\* `if i % batch_size == 0`
BatchComplete(i, size) == i % size = 0

\* process_file has returned: its pair is added up, the batch delay is slept
\* when due, and the frame of process_file is left
PdFileReturn ==
    /\ pd_state = "in_file"
    /\ pf_state = "returned"
    /\ pd_total' = pd_total + pf_ret[1]
    /\ pd_added' = pd_added + pf_ret[2]
    /\ pd_delays' = IF BatchComplete(pd_i, batch_size) THEN pd_delays + 1 ELSE pd_delays
    /\ pd_state' = "files"
    /\ PfLeave
    /\ UNCHANGED <<pd_arg_user, pd_user, pd_di, pd_nfiles, pd_i, pd_ret, pd_calls,
                   pd_found, pd_skipped>>
    /\ UNCHANGED <<af_vars, ef_vars, run_vars>>
    /\ pd_sum' = <<pd_sum[1] + pf_ret[1], pd_sum[2] + pf_ret[2]>>

\* a faulty process_directories: the two sums change places
MutTripleSwapped(total_files, total, added) == <<total_files, added, total>>

\* `return total_files, total_facts, added_facts`
PdTriple(total_files, total, added) == <<total_files, total, added>>

\* every file is processed: `return total_files, total_facts, added_facts`
PdReturn ==
    /\ pd_state = "files"
    /\ pd_i >= pd_nfiles
    /\ pd_state' = "returned"
    /\ pd_ret' = PdTriple(pd_nfiles, pd_total, pd_added)
    /\ UNCHANGED <<pd_arg_user, pd_user, pd_di, pd_nfiles, pd_i, pd_total, pd_added,
                   pd_delays, pd_calls, pd_sum, pd_found, pd_skipped>>
    /\ UNCHANGED <<af_vars, ef_vars, pf_vars, run_vars>>

(***************************************************************************)
(* MemoryManager.search_memories and MemoryManager.get_all_memories        *)
(***************************************************************************)
\* a faulty search_memories: the exception of memory.search reaches the caller
MutSearchPropagates(outcome) == outcome

\* what search_memories returns for what memory.search did: the results, or
\* None from the except clause
SearchMemories(outcome) ==
    IF outcome.kind = "raise" THEN NoneMemories ELSE outcome

\* what get_all_memories returns for what memory.get_all did
GetAllMemories(outcome) ==
    IF outcome.kind = "raise" THEN NoneMemories ELSE outcome

\* `not memories or not memories.get('results')`
NoResults(memories) == memories.kind = "None" \/ memories.results = <<>>

\* no search_memories and no get_all_memories call was made yet
QmIdle ==
    /\ qm_state = "idle"
    /\ qm_op = "none"
    /\ qm_args = <<>>
    /\ qm_backend = <<>>
    /\ qm_outcome = NoneMemories
    /\ qm_ret = NoneMemories

\* how a call ends that hands the given value to its caller: an exception
\* that is not caught reaches the caller
EndWith(value) == IF value.kind = "raise" THEN "raised" ELSE "returned"

\* a caller invokes search_memories: line 167 picks the user, memory.search
\* is called and answers, search_memories returns
SearchMemoriesCall ==
    \E query \in QueryArgs, user \in UserArgs,
       limit \in (1..MaxLimitArg) \cup {DefaultMaxContext},
       outcome \in SearchOutcomes :
      /\ qm_op' = "search"
      /\ qm_args' = <<query, user, limit>>
      /\ qm_backend' = <<[op |-> "search", query |-> query,
                          user_id |-> EffectiveUser(user, default_user),
                          limit |-> limit]>>
      /\ qm_outcome' = outcome
      /\ qm_ret' = SearchMemories(outcome)
      /\ store_ops' = store_ops \cup {MemorySearch}
      /\ qm_state' = EndWith(SearchMemories(outcome))

\* a caller invokes get_all_memories: line 189 picks the user, memory.get_all
\* is called and answers, get_all_memories returns
GetAllMemoriesCall ==
    \E user \in UserArgs, outcome \in GetAllOutcomes :
      /\ qm_op' = "get_all"
      /\ qm_args' = <<user>>
      /\ qm_backend' = <<[op |-> "get_all",
                          user_id |-> EffectiveUser(user, default_user)]>>
      /\ qm_outcome' = outcome
      /\ qm_ret' = GetAllMemories(outcome)
      /\ store_ops' = store_ops \cup {MemoryGetAll}
      /\ qm_state' = EndWith(GetAllMemories(outcome))

(***************************************************************************)
(* MemoryManager.chat                                                      *)
(***************************************************************************)
\* the frame of chat before any call
ChIdle ==
    /\ ch_state = "idle"
    /\ ch_query = ""
    /\ ch_arg_user = NoneUser
    /\ ch_user = NoneUser
    /\ ch_arg_limit = NoneLimit
    /\ ch_limit = 0
    /\ ch_memories = NoneMemories
    /\ ch_prompt = <<>>
    /\ ch_llm = LlmFailure("none")
    /\ ch_ret = NoneStr
    /\ search_calls = <<>>
    /\ search_failed = FALSE
    /\ llm_calls = 0

\* max_context_memories = max_context_memories or config default
EffectiveLimit(limit) ==
    IF limit # NoneLimit /\ limit # 0 THEN limit ELSE DefaultMaxContext

\* a faulty context block: only the first fact found is listed
MutContextFirstFact(memories, user) ==
    IF NoResults(memories)
    THEN [kind |-> "no_information", about |-> user, facts |-> <<>>]
    ELSE [kind |-> "facts", about |-> user, facts |-> <<memories.results[1]>>]

\* the context block of the prompt: "No specific information available about
\* {user_id}." or "Facts about {user_id}:" and one bullet for each fact
ChatContext(memories, user) ==
    IF NoResults(memories)
    THEN [kind |-> "no_information", about |-> user, facts |-> <<>>]
    ELSE [kind |-> "facts", about |-> user, facts |-> memories.results]

\* the prompt of chat, as the values its template is filled with
ChatPrompt(memories, user, query) ==
    [assistant_for |-> user,
     context |-> ChatContext(memories, user),
     pronouns_refer_to |-> user,
     question |-> query]

\* a faulty chat: the exception of the LLM call reaches the caller
MutChatReraises(outcome) ==
    LET response == CallOllamaApi(outcome) IN
      IF response.raised
      THEN [state |-> "raised", ret |-> NoneStr]
      ELSE [state |-> "returned", ret |-> Str(response.text)]

\* a faulty chat: the except clause returns the empty string
MutChatEmptyOnError(outcome) ==
    LET response == CallOllamaApi(outcome) IN
      IF response.raised
      THEN [state |-> "returned", ret |-> Str(<<>>)]
      ELSE [state |-> "returned", ret |-> Str(response.text)]

\* how chat ends for what the HTTP call to the LLM did: it returns the text
\* of _call_ollama_api, or the apology of its except clause
ChatEnd(outcome) ==
    LET response == CallOllamaApi(outcome) IN
      IF response.raised
      THEN [state |-> "returned", ret |-> Str(ErrorApology(outcome.kind))]
      ELSE [state |-> "returned", ret |-> Str(response.text)]

\* a caller invokes chat: lines 257 and 258 pick the user and the limit
ChatCall ==
    /\ ch_state = "idle"
    /\ \E query \in QueryArgs, user \in UserArgs, limit \in LimitArgs :
         /\ ch_query' = query
         /\ ch_arg_user' = user
         /\ ch_user' = EffectiveUser(user, default_user)
         /\ ch_arg_limit' = limit
         /\ ch_limit' = EffectiveLimit(limit)
    /\ ch_state' = "running"
    /\ UNCHANGED <<ch_memories, ch_prompt, ch_llm, ch_ret, search_calls,
                   search_failed, llm_calls>>

\* search_memories: memory.search is called once and answers; the context
\* and the prompt are built from what search_memories returns
ChatSearch ==
    /\ ch_state = "running"
    /\ \E outcome \in SearchOutcomes :
         LET memories == SearchMemories(outcome) IN
           /\ search_calls' = Append(search_calls,
                  [query |-> ch_query,
                   user_id |-> EffectiveUser(ch_user, default_user),
                   limit |-> ch_limit])
           /\ search_failed' = (search_failed \/ outcome.kind = "raise")
           /\ ch_memories' = memories
           /\ ch_prompt' = ChatPrompt(memories, ch_user, ch_query)
    /\ ch_state' = "searched"
    /\ store_ops' = store_ops \cup {MemorySearch}
    /\ UNCHANGED <<ch_query, ch_arg_user, ch_user, ch_arg_limit, ch_limit, ch_llm,
                   ch_ret, llm_calls>>

\* _call_ollama_api: the LLM is called once and answers; chat ends
ChatLlm ==
    /\ ch_state = "searched"
    /\ \E outcome \in LlmOutcomes :
         LET end == ChatEnd(outcome) IN
           /\ ch_llm' = outcome
           /\ ch_state' = end.state
           /\ ch_ret' = end.ret
    /\ llm_calls' = llm_calls + 1
    /\ UNCHANGED <<ch_query, ch_arg_user, ch_user, ch_arg_limit, ch_limit,
                   ch_memories, ch_prompt, search_calls, search_failed>>

(***************************************************************************)
(* MemoryManager.reset_memories                                            *)
(***************************************************************************)
\* the frame of reset_memories before any call
RsIdle ==
    /\ rs_state = "idle"
    /\ rs_user = NoneUser
    /\ rs_records = <<>>
    /\ rs_i = 0
    /\ deleted_count = 0
    /\ rs_ret = 0
    /\ getall_calls = <<>>
    /\ delete_calls = <<>>

\* a caller invokes reset_memories: line 211 picks the user
ResetCall ==
    /\ rs_state = "idle"
    /\ \E user \in UserArgs : rs_user' = EffectiveUser(user, default_user)
    /\ rs_state' = "running"
    /\ UNCHANGED <<rs_records, rs_i, deleted_count, rs_ret, getall_calls,
                   delete_calls>>

\* get_all_memories: memory.get_all is called once and answers; with
\* nothing fetched reset_memories returns 0
ResetFetch ==
    /\ rs_state = "running"
    /\ \E outcome \in GetAllOutcomes :
         LET all_memories == GetAllMemories(outcome) IN
           /\ getall_calls' = Append(getall_calls, EffectiveUser(rs_user, default_user))
           /\ rs_records' = all_memories.results
           /\ rs_state' = IF NoResults(all_memories) THEN "returned" ELSE "deleting"
    /\ rs_i' = 0
    /\ deleted_count' = 0
    /\ rs_ret' = 0
    /\ store_ops' = store_ops \cup {MemoryGetAll}
    /\ UNCHANGED <<rs_user, delete_calls>>

\* a faulty loop body: a delete that raises ends reset_memories
MutStopAtFailedDelete(count, ok) ==
    IF ok THEN [state |-> "deleting", count |-> count + 1]
    ELSE [state |-> "returned", count |-> count]

\* one iteration of the loop over the records, given whether memory.delete
\* succeeded: the state reset_memories is in afterwards and deleted_count
ResetIteration(count, ok) ==
    IF ok THEN [state |-> "deleting", count |-> count + 1]
    ELSE [state |-> "deleting", count |-> count]

\* `for memory in all_memories['results']`: memory.delete is called for the
\* next record and succeeds or raises
ResetDelete ==
    /\ rs_state = "deleting"
    /\ rs_i < Len(rs_records)
    /\ \E ok \in BOOLEAN :
         LET next == ResetIteration(deleted_count, ok) IN
           /\ delete_calls' = Append(delete_calls,
                  [memory_id |-> rs_records[rs_i + 1], ok |-> ok])
           /\ deleted_count' = next.count
           /\ rs_state' = next.state
           /\ rs_ret' = IF next.state = "returned" THEN next.count ELSE rs_ret
    /\ rs_i' = rs_i + 1
    /\ store_ops' = store_ops \cup {MemoryDelete}
    /\ UNCHANGED <<rs_user, rs_records, getall_calls>>

\* no record is left: `return deleted_count`
ResetReturn ==
    /\ rs_state = "deleting"
    /\ rs_i >= Len(rs_records)
    /\ rs_state' = "returned"
    /\ rs_ret' = deleted_count
    /\ UNCHANGED <<rs_user, rs_records, rs_i, deleted_count, getall_calls,
                   delete_calls>>

(***************************************************************************)
(* memory_app: reset_command and chat_command                              *)
(***************************************************************************)
\* str.lower on one character
Lower(c) ==
    CASE c = "Y" -> "y"
      [] c = "E" -> "e"
      [] c = "S" -> "s"
      [] OTHER -> c

\* input(...).strip().lower()
StripLower(t) == LET u == Strip(t) IN [i \in 1..Len(u) |-> Lower(u[i])]

\* a faulty confirmation: every answer but 'no' is taken for consent
MutAnyAnswerButNo(answer) == StripLower(answer) # <<"n", "o">>

\* `confirm == 'yes'`
Consents(answer) == StripLower(answer) = <<"y", "e", "s">>

\* no command of memory_app has started
CliIdle ==
    /\ cli_state = "idle"
    /\ cli_cmd = "none"
    /\ cli_user = NoneUser
    /\ cli_force = FALSE
    /\ cli_answer = NoAnswer
    /\ cli_said_yes = FALSE

\* memory_manager.reset_memories(args.user) is entered: line 211 picks the user
RsEnter(user) ==
    /\ rs_state' = "running"
    /\ rs_user' = EffectiveUser(user, default_user)
    /\ UNCHANGED <<rs_records, rs_i, deleted_count, rs_ret, getall_calls,
                   delete_calls>>

\* the frame of reset_memories is left: its variables are dead
RsLeave ==
    /\ rs_state' = "idle"
    /\ rs_user' = NoneUser
    /\ rs_records' = <<>>
    /\ rs_i' = 0
    /\ deleted_count' = 0
    /\ rs_ret' = 0
    /\ getall_calls' = <<>>
    /\ delete_calls' = <<>>

\* main dispatches to reset_command, with or without --force
CliResetCommand ==
    /\ cli_state = "idle"
    /\ \E force \in BOOLEAN, user \in {"alice", default_user} :
         /\ cli_force' = force
         /\ cli_user' = user
    /\ cli_cmd' = "reset"
    /\ cli_state' = "start"
    /\ UNCHANGED <<cli_answer, cli_said_yes, rs_vars, store_vars>>

\* reset_command with --force: reset_memories is called without a question
CliResetForced ==
    /\ cli_state = "start"
    /\ cli_cmd = "reset"
    /\ cli_force
    /\ RsEnter(cli_user)
    /\ cli_state' = "resetting"
    /\ cli_said_yes' = TRUE
    /\ UNCHANGED <<cli_cmd, cli_user, cli_force, cli_answer, store_vars>>

\* the confirmation of reset_command and of the 'reset' input of the chat
\* session: input() raises EOFError and the command ends, or it gives an
\* answer: on 'yes' reset_memories is called, on any other answer the reset
\* is cancelled; `back` is where a cancelled reset leaves the command
CliConfirm(back) ==
    \E answer \in Answers \cup {Eof} :
      /\ cli_answer' = answer
      /\ IF answer = Eof
         THEN /\ cli_state' = "ended"
              /\ UNCHANGED <<rs_vars, cli_said_yes>>
         ELSE IF Consents(answer)
         THEN /\ RsEnter(cli_user)
              /\ cli_state' = "resetting"
              /\ cli_said_yes' = (cli_said_yes \/ StripLower(answer) = <<"y", "e", "s">>)
         ELSE /\ cli_state' = back
              /\ UNCHANGED <<rs_vars, cli_said_yes>>
      /\ UNCHANGED <<cli_cmd, cli_user, cli_force, store_vars>>

\* reset_command without --force asks; "Reset cancelled" ends the command
CliResetConfirm ==
    /\ cli_state = "start"
    /\ cli_cmd = "reset"
    /\ ~cli_force
    /\ CliConfirm("ended")

\* the steps of reset_memories while a command of memory_app runs it
CliResetStep ==
    /\ cli_state = "resetting"
    /\ \/ ResetFetch
       \/ ResetDelete
       \/ ResetReturn /\ UNCHANGED store_vars
    /\ UNCHANGED cli_vars

\* reset_memories has returned: reset_command prints the count and ends, the
\* chat session prints it and reads the next input
CliResetDone ==
    /\ cli_state = "resetting"
    /\ rs_state = "returned"
    /\ RsLeave
    /\ cli_state' = IF cli_cmd = "chat" THEN "prompt" ELSE "ended"
    /\ cli_answer' = IF cli_cmd = "chat" THEN NoAnswer ELSE cli_answer
    /\ UNCHANGED <<cli_cmd, cli_user, cli_force, cli_said_yes, store_vars>>

\* main dispatches to chat_command: get_all_memories is called, and without
\* memories the command ends before the session starts
CliChatCommand ==
    /\ cli_state = "idle"
    /\ \E user \in {"alice", default_user} : cli_user' = user
    /\ cli_cmd' = "chat"
    /\ store_ops' = store_ops \cup {MemoryGetAll}
    /\ \E found \in BOOLEAN : cli_state' = IF found THEN "prompt" ELSE "ended"
    /\ UNCHANGED <<cli_force, cli_answer, cli_said_yes, rs_vars>>

\* one input of the chat session; input() may raise EOFError
CliChatInput ==
    /\ cli_state = "prompt"
    /\ \E user_input \in SessionInputs \cup {"EOFError"} :
         /\ cli_state' = CASE user_input \in {"exit", "EOFError"} -> "ended"
                            [] user_input = "reset" -> "confirm"
                            [] OTHER -> "prompt"
         /\ store_ops' = CASE user_input = "memories" -> store_ops \cup {MemoryGetAll}
                            [] user_input = "question" -> store_ops \cup {MemorySearch}
                            [] OTHER -> store_ops
    /\ cli_answer' = NoAnswer
    /\ UNCHANGED <<cli_cmd, cli_user, cli_force, cli_said_yes, rs_vars>>

\* the chat session asks before a reset; "Reset cancelled" goes on with the
\* session
CliChatConfirm ==
    /\ cli_state = "confirm"
    /\ cli_cmd = "chat"
    /\ CliConfirm("prompt")

(***************************************************************************)
(* Specifications: one per entry point of the program.                     *)
(***************************************************************************)
\* the state after MemoryManager and MarkdownProcessor are constructed, but
\* for the batch size: no call was made
InitCalls ==
    /\ default_user \in DefaultUsers
    /\ AfIdle
    /\ EfIdle
    /\ PfIdle
    /\ RunIdle
    /\ PdIdle
    /\ ChIdle
    /\ RsIdle
    /\ QmIdle
    /\ ParseIdle
    /\ store_ops = {}
    /\ CliIdle

\* the state after construction with the default batch size
Init ==
    /\ batch_size = DefaultBatchSize
    /\ InitCalls

\* the state after construction with a batch size set in the configuration
InitBatch ==
    /\ batch_size \in 1..MaxBatchSize
    /\ InitCalls

NextAddFact ==
    \/ AddFactCall /\ UNCHANGED <<config_vars, ef_vars, pf_vars, run_vars, pd_vars, ch_vars, rs_vars, qm_vars, parse_vars, store_vars, cli_vars>>
    \/ AfAttempt /\ UNCHANGED <<config_vars, ef_vars, pf_vars, run_vars, pd_vars, ch_vars, rs_vars, qm_vars, parse_vars, cli_vars>>
    \/ AfFallThrough /\ UNCHANGED <<config_vars, ef_vars, pf_vars, run_vars, pd_vars, ch_vars, rs_vars, qm_vars, parse_vars, store_vars, cli_vars>>

SpecAddFact == Init /\ [][NextAddFact]_vars

NextExtract ==
    ExtractCall /\ UNCHANGED <<config_vars, af_vars, pf_vars, run_vars, pd_vars, ch_vars, rs_vars, qm_vars, parse_vars, store_vars, cli_vars>>

SpecExtract == Init /\ [][NextExtract]_vars

NextProcessFile ==
    \/ ProcessFileCall /\ UNCHANGED <<config_vars, pd_vars, ch_vars, rs_vars, qm_vars, parse_vars, store_vars, cli_vars>>
    \/ PfStep /\ UNCHANGED <<config_vars, pd_vars, ch_vars, rs_vars, qm_vars, parse_vars, cli_vars>>

SpecProcessFile == Init /\ [][NextProcessFile]_vars

\* process_file called directly or by process_directories for each file
NextProcess ==
    \/ ProcessFileCall /\ UNCHANGED <<config_vars, pd_vars, ch_vars, rs_vars, qm_vars, parse_vars, store_vars, cli_vars>>
    \/ ProcessDirectoriesCall /\ UNCHANGED <<config_vars, ch_vars, rs_vars, qm_vars, parse_vars, store_vars, cli_vars>>
    \/ PdNextDir /\ UNCHANGED <<config_vars, ch_vars, rs_vars, qm_vars, parse_vars, store_vars, cli_vars>>
    \/ PdNoFiles /\ UNCHANGED <<config_vars, ch_vars, rs_vars, qm_vars, parse_vars, store_vars, cli_vars>>
    \/ PdEnumerated /\ UNCHANGED <<config_vars, ch_vars, rs_vars, qm_vars, parse_vars, store_vars, cli_vars>>
    \/ PdProcessFile /\ UNCHANGED <<config_vars, ch_vars, rs_vars, qm_vars, parse_vars, store_vars, cli_vars>>
    \/ PfStep /\ UNCHANGED <<config_vars, pd_vars, ch_vars, rs_vars, qm_vars, parse_vars, cli_vars>>
    \/ PdFileReturn /\ UNCHANGED <<config_vars, ch_vars, rs_vars, qm_vars, parse_vars, store_vars, cli_vars>>
    \/ PdReturn /\ UNCHANGED <<config_vars, ch_vars, rs_vars, qm_vars, parse_vars, store_vars, cli_vars>>

SpecProcess == Init /\ [][NextProcess]_vars

\* process_directories under a configured batch size
SpecBatch == InitBatch /\ [][NextProcess]_vars

\* the same, for a program that goes on executing: a single thread takes its
\* next step whenever it has one
FairSpecProcess == Init /\ [][NextProcess]_vars /\ WF_vars(NextProcess)

NextChat ==
    \/ ChatCall /\ UNCHANGED <<config_vars, pipeline_vars, rs_vars, qm_vars, parse_vars, store_vars, cli_vars>>
    \/ ChatSearch /\ UNCHANGED <<config_vars, pipeline_vars, rs_vars, qm_vars, parse_vars, cli_vars>>
    \/ ChatLlm /\ UNCHANGED <<config_vars, pipeline_vars, rs_vars, qm_vars, parse_vars, store_vars, cli_vars>>

SpecChat == Init /\ [][NextChat]_vars

NextReset ==
    \/ ResetCall /\ UNCHANGED <<config_vars, pipeline_vars, ch_vars, qm_vars, parse_vars, store_vars, cli_vars>>
    \/ ResetFetch /\ UNCHANGED <<config_vars, pipeline_vars, ch_vars, qm_vars, parse_vars, cli_vars>>
    \/ ResetDelete /\ UNCHANGED <<config_vars, pipeline_vars, ch_vars, qm_vars, parse_vars, cli_vars>>
    \/ ResetReturn /\ UNCHANGED <<config_vars, pipeline_vars, ch_vars, qm_vars, parse_vars, store_vars, cli_vars>>

SpecReset == Init /\ [][NextReset]_vars

\* the markdown pipeline or a chat: the program runs one of them at a time
NextPipeline ==
    \/ NextProcess /\ ch_state = "idle"
    \/ NextChat /\ pf_state = "idle" /\ pd_state = "idle"

SpecPipeline == Init /\ [][NextPipeline]_vars

\* the reset and chat commands of memory_app
NextCli ==
    \/ CliResetCommand /\ UNCHANGED <<config_vars, pipeline_vars, ch_vars, qm_vars, parse_vars>>
    \/ CliResetForced /\ UNCHANGED <<config_vars, pipeline_vars, ch_vars, qm_vars, parse_vars>>
    \/ CliResetConfirm /\ UNCHANGED <<config_vars, pipeline_vars, ch_vars, qm_vars, parse_vars>>
    \/ CliResetStep /\ UNCHANGED <<config_vars, pipeline_vars, ch_vars, qm_vars, parse_vars>>
    \/ CliResetDone /\ UNCHANGED <<config_vars, pipeline_vars, ch_vars, qm_vars, parse_vars>>
    \/ CliChatCommand /\ UNCHANGED <<config_vars, pipeline_vars, ch_vars, qm_vars, parse_vars>>
    \/ CliChatInput /\ UNCHANGED <<config_vars, pipeline_vars, ch_vars, qm_vars, parse_vars>>
    \/ CliChatConfirm /\ UNCHANGED <<config_vars, pipeline_vars, ch_vars, qm_vars, parse_vars>>

SpecCli == Init /\ [][NextCli]_vars

\* search_memories and get_all_memories called directly, any number of times
NextQuery ==
    \/ SearchMemoriesCall /\ UNCHANGED <<config_vars, pipeline_vars, ch_vars, rs_vars, parse_vars, cli_vars>>
    \/ GetAllMemoriesCall /\ UNCHANGED <<config_vars, pipeline_vars, ch_vars, rs_vars, parse_vars, cli_vars>>

SpecQuery == Init /\ [][NextQuery]_vars

NextSections ==
    ExtractSectionsCall
      /\ UNCHANGED <<config_vars, pipeline_vars, ch_vars, rs_vars, qm_vars, store_vars, cli_vars>>

SpecSections == Init /\ [][NextSections]_vars

NextEntries ==
    ExtractEntriesCall
      /\ UNCHANGED <<config_vars, pipeline_vars, ch_vars, rs_vars, qm_vars, store_vars, cli_vars>>

SpecEntries == Init /\ [][NextEntries]_vars

NextParseDate ==
    ParseDateCall
      /\ UNCHANGED <<config_vars, pipeline_vars, ch_vars, rs_vars, qm_vars, store_vars, cli_vars>>

SpecParseDate == Init /\ [][NextParseDate]_vars

(***************************************************************************)
(* Claims about add_fact, checked under SpecAddFact.                       *)
(***************************************************************************)
\* every memory.add call of the current add_fact raised
AllRaised == \A i \in 1..Len(af_outcomes) : af_outcomes[i].kind = "raise"

\* C1: with max_retries >= 1 a single add_fact call makes at most
\* max_retries backend calls, and the first backend call that does not raise
\* is the last one: when that is attempt k, exactly k calls are made and
\* add_fact has returned.
C1_RetryBound ==
    af_max >= 1 =>
      /\ Len(af_outcomes) <= af_max
      /\ \A k \in 1..Len(af_outcomes) :
           af_outcomes[k].kind # "raise" =>
             /\ k = Len(af_outcomes)
             /\ af_state = "returned"
             /\ \A i \in 1..(k - 1) : af_outcomes[i].kind = "raise"

\* C1 witness: the third attempt was the first not to raise, three calls made
C1_Witness ==
    /\ af_state = "returned"
    /\ af_max >= 3
    /\ Len(af_outcomes) = 3
    /\ af_outcomes[1].kind = "raise"
    /\ af_outcomes[2].kind = "raise"
    /\ af_outcomes[3].kind = "dict"

\* C2: a backend call that returns with zero created records is the last
\* backend call of its add_fact, which returns that very result, a value
\* different from the None returned when every attempt failed.
C2_EmptyNotRetried ==
    \A k \in 1..Len(af_outcomes) :
      af_outcomes[k] = Returned(0) =>
        /\ k = Len(af_outcomes)
        /\ af_state = "returned"
        /\ af_ret = Returned(0)
        /\ af_ret # NoneVal

\* C2 witness: an attempt raised, the next returned no record, with attempts left
C2_Witness ==
    /\ af_state = "returned"
    /\ Len(af_outcomes) = 2
    /\ af_max > 2
    /\ af_outcomes[1].kind = "raise"
    /\ af_outcomes[2] = Returned(0)

\* C3: add_fact never raises to its caller, and once all max_retries
\* attempts have raised it has returned None.
C3_ExhaustedReturnsNone ==
    /\ af_state # "raised"
    /\ (af_state # "idle" /\ af_max >= 1 /\ Len(af_outcomes) = af_max /\ AllRaised)
         => (af_state = "returned" /\ af_ret = NoneVal)
    /\ (af_state = "returned" /\ AllRaised) => af_ret = NoneVal

\* C3 witness: three attempts, all raised, None returned
C3_Witness ==
    /\ af_state = "returned"
    /\ af_max = 3
    /\ Len(af_outcomes) = 3
    /\ AllRaised
    /\ af_ret = NoneVal

\* the step is a memory.add call of the running add_fact
BackendCall == Len(af_outcomes') = Len(af_outcomes) + 1

\* the delay is slept after a failed attempt that another attempt follows,
\* and after no other attempt
DelayOnlyBetweenAttempts ==
    [][/\ BackendCall =>
            (af_sleeps' = af_sleeps + 1) <=>
               /\ af_outcomes'[Len(af_outcomes')].kind = "raise"
               /\ af_state' = "running"
               /\ InRange(af_attempt', af_max)
       /\ ~BackendCall => af_sleeps' = af_sleeps
       /\ af_sleeps' \in {af_sleeps, af_sleeps + 1}]_vars

\* C30 as stated: within one add_fact call the delay is slept after each
\* failed attempt that another attempt follows and after no other attempt,
\* and when the call has returned the number of delays is one less than the
\* number of backend calls made.
C30_DelaysOneLessThanCalls ==
    /\ DelayOnlyBetweenAttempts
    /\ [](af_state = "returned" => af_sleeps = Len(af_outcomes) - 1)

\* C30 amended: within one add_fact call the delay is slept after each
\* failed attempt that another attempt follows and after no other attempt;
\* while attempts are left every backend call made was followed by a delay;
\* when the call has returned after at least one backend call the number of
\* delays is one less than the number of backend calls, and when it has
\* returned without a backend call, which is so with max_retries <= 0,
\* there is no delay.
C30_DelaysBetweenAttempts ==
    /\ DelayOnlyBetweenAttempts
    /\ [](af_state = "running" => af_sleeps = Len(af_outcomes))
    /\ [](af_state = "returned" =>
            /\ Len(af_outcomes) >= 1 => af_sleeps = Len(af_outcomes) - 1
            /\ Len(af_outcomes) = 0 => (af_sleeps = 0 /\ af_max <= 0))

\* C30 witness: three attempts raised; add_fact slept after the first and
\* the second and returned None after the third
C30_Witness ==
    /\ af_state = "returned"
    /\ Len(af_outcomes) = 3
    /\ AllRaised
    /\ af_sleeps = 2
    /\ af_ret = NoneVal

(***************************************************************************)
(* Claims about process_file, checked under SpecProcessFile.               *)
(***************************************************************************)
\* facts of the current entry that the inner loop has not finished
FactsLeft == Len(pf_facts) - pf_fi

\* C4: failure isolation is per fact: whatever the add_fact calls so far
\* returned, None included, add_fact has been invoked once for every fact
\* extracted before the loop's current place, and on return from
\* process_file once for every fact extracted from the file.
C4_FailureIsolation ==
    /\ pf_state \in {"sections", "entries", "returned"} =>
         run_invoked = run_extracted
    /\ pf_state = "facts" => run_invoked = run_extracted - FactsLeft
    /\ pf_state = "adding" => run_invoked = run_extracted - FactsLeft + 1

\* C4 witness: after an add_fact that returned None, add_fact runs for a fact
\* of the next section and creates a record
C4_Witness ==
    /\ run_failed
    /\ pf_si = 2
    /\ pf_state = "adding"
    /\ af_state = "returned"
    /\ HasRecords(af_ret)

\* C5: at every point of process_file total_facts is the number of facts
\* extract_facts_with_llm has returned, added_facts is the number of add_fact
\* calls that ended with at least one created record, added_facts is at
\* most total_facts, and the pair returned holds these two counts.
C5_Counters ==
    /\ total_facts = run_extracted
    /\ added_facts = run_created
    /\ added_facts <= total_facts
    /\ pf_state = "returned" =>
         /\ pf_ret = <<run_extracted, run_created>>
         /\ pf_ret[2] <= pf_ret[1]

\* C5 witness: two facts extracted, one add_fact returned None, one created a
\* record, and (2, 1) is returned
C5_Witness ==
    /\ pf_state = "returned"
    /\ run_failed
    /\ pf_ret = <<2, 1>>

\* C12: when the file cannot be read, process_file has returned (0, 0)
\* without raising, and it has made no LLM call and no add_fact call, hence
\* no backend call.
C12_ReadFailure ==
    run_read_failed =>
      /\ pf_state = "returned"
      /\ pf_ret = <<0, 0>>
      /\ ~run_llm_called
      /\ run_invoked = 0
      /\ add_users = {}
      /\ af_state = "idle" /\ af_outcomes = <<>>

\* C12 witness: process_file("alice") could not read its file and returned
C12_Witness ==
    /\ run_read_failed
    /\ pf_arg_user = "alice"
    /\ pf_state = "returned"

\* C21: process_file calls add_fact once for each fact the extraction
\* returned: while an add_fact call runs it holds the text of the fact the
\* loop is at, unchanged, as many calls were made as facts were reached, and
\* its metadata holds the timestamp key exactly when the entry has a
\* timestamp and is the empty dict otherwise.
C21_AddFactArguments ==
    pf_state = "adding" =>
      /\ pf_fi < Len(pf_facts)
      /\ af_fact = pf_facts[pf_fi + 1]
      /\ run_invoked = run_extracted - Len(pf_facts) + pf_fi + 1
      /\ af_meta = "{timestamp}" <=> pf_entry.ts
      /\ af_meta = "{}" <=> ~pf_entry.ts

\* C21 witness: add_fact runs for the second fact of an entry without
\* timestamp, with empty metadata
C21_Witness ==
    /\ pf_state = "adding"
    /\ ~pf_entry.ts
    /\ pf_fi = 1
    /\ af_fact = pf_facts[2]
    /\ af_meta = "{}"

\* the place p in the document comes before the place q: section, then
\* entry of the section, then fact of the entry
PlaceBefore(p, q) ==
    \/ p[1] < q[1]
    \/ p[1] = q[1] /\ p[2] < q[2]
    \/ p[1] = q[1] /\ p[2] = q[2] /\ p[3] < q[3]

\* C24: within one process_file run every add_fact call is for the fact the
\* loops are at, which lies after the place of the call before it in
\* document order (section, entry, fact as emitted), and starts when no
\* add_fact call is running; the LLM call for an entry starts only when
\* add_fact has been called for every fact extracted so far and the last of
\* these calls, with its retries, has ended.
C24_DocumentOrder ==
    [][ /\ run_invoked' = run_invoked + 1 =>
             /\ run_last_add' = <<pf_si, pf_ei, pf_fi + 1>>
             /\ PlaceBefore(run_last_add, run_last_add')
             /\ af_state = "idle"
        /\ (pf_state = "entries" /\ pf_state' = "facts") =>
             /\ af_state = "idle"
             /\ run_invoked = run_extracted
        /\ af_state' # "idle" => pf_state' = "adding"
      ]_vars

\* C24 witness: after an add_fact call for a fact of the first section,
\* add_fact retries for the first fact of an entry of the second section
C24_Witness ==
    /\ run_invoked = 2
    /\ run_last_add = <<2, 1, 1>>
    /\ pf_state = "adding"
    /\ af_attempt = 1

\* C25: when the loop of process_file takes an entry whose stripped content
\* has fewer than 10 characters, it makes no LLM call and no add_fact call
\* for it and leaves both counters as they are; when it takes an entry of at
\* least 10 characters it makes exactly one LLM extraction call; add_fact
\* runs only for entries of at least 10 characters.
C25_ShortEntriesSkipped ==
    [][ /\ pf_ei' = pf_ei + 1 =>
             IF run_entry'.len < MinContentLen
             THEN /\ run_entry'.llm_calls = 0
                  /\ run_llm_called' = run_llm_called
                  /\ run_invoked' = run_invoked
                  /\ af_state' = "idle"
                  /\ store_ops' = store_ops
                  /\ total_facts' = total_facts
                  /\ added_facts' = added_facts
                  /\ pf_state' = "entries"
             ELSE /\ run_entry'.llm_calls = 1
                  /\ run_llm_called'
        /\ af_state' # "idle" => pf_entry'.len >= MinContentLen
      ]_vars

\* C25 witness: after an entry that went to the LLM, an entry of 9
\* characters was skipped
C25_Witness ==
    /\ pf_state = "entries"
    /\ pf_ei = 2
    /\ run_llm_called
    /\ run_entry = [len |-> MinContentLen - 1, llm_calls |-> 0]

(***************************************************************************)
(* Claims about process_file and process_directories, checked under        *)
(* SpecProcess.                                                            *)
(***************************************************************************)
\* the user_id argument of the entry point that is running
CallerUser == IF pd_state = "idle" THEN pf_arg_user ELSE pd_arg_user

\* C7: every memory.add call made during process_file(path, u) or
\* process_directories(u) carries u when u is a non-empty user_id and the
\* configured default user_id when the caller gave none, for every file,
\* entry, fact and retry.
C7_UserIdOnEveryAdd ==
    \A u \in add_users :
      u = (IF CallerUser \notin {NoneUser, ""} THEN CallerUser ELSE default_user)

\* C7 witness: process_directories("alice") retries an add in its second
\* file, every add so far having carried "alice"
C7_Witness ==
    /\ pd_state = "in_file"
    /\ pd_arg_user = "alice"
    /\ pd_i = 2
    /\ af_state = "running"
    /\ af_attempt = 1
    /\ add_users = {"alice"}

\* C13: the triple process_directories returns holds the number of
\* process_file invocations, one per enumerated file whether or not the
\* file could be processed, and the sums of the pairs those invocations
\* returned, which are the facts extracted and the records created in the
\* run; with no file found it is (0, 0, 0) and process_file was not invoked.
C13_DirectoryCounters ==
    /\ pd_calls = pd_i
    /\ pd_state = "returned" =>
         /\ pd_calls = pd_nfiles
         /\ pd_ret = <<pd_calls, pd_sum[1], pd_sum[2]>>
         /\ pd_sum = <<run_extracted, run_created>>
         /\ pd_nfiles = 0 => (pd_ret = <<0, 0, 0>> /\ pd_calls = 0)

\* C13 witness: of two files one could not be read and the other yielded
\* (2, 1): process_directories returned (2, 2, 1)
C13_Witness ==
    /\ pd_state = "returned"
    /\ run_read_failed
    /\ pd_ret = <<2, 2, 1>>

\* C14: whatever the file reads, the LLM calls and the backend calls do,
\* a process_directories call that has started returns its triple; the files
\* it enumerates are exactly those found under the configured paths that are
\* directories, missing paths and paths that are no directory adding none,
\* and when it returns every one of them was handed to process_file.
C14_DirectoriesComplete ==
    /\ (pd_state = "enumerate") ~> (pd_state = "returned")
    /\ [](pd_nfiles = pd_found)
    /\ [](pd_state = "returned" => pd_calls = pd_found)

\* C14 witness: a configured path was skipped, one of two files could
\* not be read, and process_directories returned after two process_file calls
C14_Witness ==
    /\ pd_state = "returned"
    /\ pd_skipped
    /\ run_read_failed
    /\ run_llm_called
    /\ pd_calls = 2
    /\ pd_ret[1] = 2

(***************************************************************************)
(* Claims about extract_facts_with_llm, checked under SpecExtract.         *)
(***************************************************************************)
\* C6: whenever the LLM call failed (network error, non-2xx status, or a
\* response without the completion text), extract_facts_with_llm has returned
\* the empty list after exactly one LLM call and has not raised.
C6_FailureYieldsNoFact ==
    (ef_state # "idle" /\ llm_last \in LlmFailureKinds) =>
      /\ ef_state = "returned"
      /\ ef_llm_calls = 1
      /\ ef_ret = <<>>

\* the prompt mentions the recording time
Annotated(prompt) == prompt.time_context = TimeAnnotation

\* C18 as stated: the prompt of every extract_facts_with_llm call holds the
\* section heading and the entry content, and mentions the recording time
\* exactly when the entry has a timestamp.
C18_PromptAlwaysComplete ==
    ef_state = "returned" =>
      /\ ef_prompt.context = ef_context
      /\ ef_prompt.content = ef_content
      /\ Annotated(ef_prompt) <=> ef_ts

\* C18 amended: the prompt always holds the entry content and never mentions
\* a recording time for an entry without timestamp; when the prompt template
\* is available it also holds the section heading, and mentions the recording
\* time exactly when the entry has a timestamp; when get_prompt fails the
\* prompt is the fallback, which holds neither heading nor recording time.
C18_PromptParts ==
    ef_state = "returned" =>
      /\ ef_prompt.content = ef_content
      /\ ~ef_ts => ~Annotated(ef_prompt)
      /\ ef_template =>
           /\ ef_prompt.context = ef_context
           /\ Annotated(ef_prompt) <=> ef_ts
      /\ ~ef_template =>
           ef_prompt = Prompt("Extract key facts from: ", NoHeader, "", ef_content)

\* C18 witness: the template was available and the entry had a timestamp:
\* the prompt holds heading, recording time and content
C18_Witness ==
    /\ ef_state = "returned"
    /\ ef_template
    /\ ef_ts
    /\ ef_prompt = Prompt("markdown_facts", SectionHeader(1), TimeAnnotation,
                          MinContentLen)

(***************************************************************************)
(* Claims about the batch delay, checked under SpecBatch.                  *)
(***************************************************************************)
\* C29: with a batch size N >= 1 process_directories has slept floor(i / N)
\* batch delays when the processing of its i-th file is finished, hence
\* floor(m / N) when it returns after m files; a delay is slept only when
\* process_file has returned for a file whose position is a multiple of N,
\* the last file included, one delay at a time.
C29_BatchDelays ==
    /\ [](/\ pd_state \in {"files", "returned"} => pd_delays = pd_i \div batch_size
          /\ pd_state = "in_file" => pd_delays = (pd_i - 1) \div batch_size
          /\ pd_state = "returned" => pd_delays = pd_nfiles \div batch_size)
    /\ [][pd_delays' # pd_delays =>
            /\ pd_delays' = pd_delays + 1
            /\ pd_state = "in_file" /\ pf_state = "returned"
            /\ pd_i % batch_size = 0]_vars

\* C29 witness: with batch size 2 and two files, process_directories
\* returned after one delay, slept after the last file
C29_Witness ==
    /\ batch_size = 2
    /\ pd_state = "returned"
    /\ pd_nfiles = 2
    /\ pd_delays = 1

(***************************************************************************)
(* Claims about the pipeline and chat together, checked under SpecPipeline.*)
(***************************************************************************)
\* C22: the pipeline never mutates or removes a stored record: as long as
\* process_file or process_directories runs or has run, add is the only
\* operation of the Fact Store that was invoked, and as long as chat runs or
\* has run, search is the only one; delete and get_all are never invoked.
C22_NoMutation ==
    /\ store_ops \subseteq {"add", "search"}
    /\ delete_calls = <<>>
    /\ (pf_state # "idle" \/ pd_state # "idle") => store_ops \subseteq {"add"}
    /\ ch_state # "idle" => store_ops \subseteq {"search"}

\* C22 witness: process_directories has returned after two records were
\* created, and add is the operation it invoked
C22_Witness ==
    /\ pd_state = "returned"
    /\ run_created = 2
    /\ store_ops = {"add"}

(***************************************************************************)
(* Claims about memory_app, checked under SpecCli.                         *)
(***************************************************************************)
\* the last confirmation was answered with yes
SaidYes == cli_answer \in Answers /\ StripLower(cli_answer) = <<"y", "e", "s">>

\* C23: reset_memories runs only after consent: in the reset command when
\* --force is set or the confirmation was answered yes, in the chat session
\* when the confirmation was answered yes; as long as neither has happened
\* no delete was issued, and after any other answer reset_memories is not
\* running and the chat session goes on or the command has ended.
C23_ResetNeedsConsent ==
    /\ rs_state # "idle" => cli_state = "resetting"
    /\ cli_state = "resetting" =>
         IF cli_cmd = "reset" THEN cli_force \/ SaidYes ELSE SaidYes
    /\ ~cli_said_yes => ("delete" \notin store_ops /\ rs_state = "idle")
    /\ (cli_answer \in Answers /\ ~SaidYes) =>
         /\ rs_state = "idle"
         /\ cli_state = (IF cli_cmd = "chat" THEN "prompt" ELSE "ended")

\* C23 witness: in the chat session the confirmation was answered " YES ",
\* and reset_memories is deleting records
C23_Witness ==
    /\ cli_cmd = "chat"
    /\ cli_answer = <<" ", "Y", "E", "S", " ">>
    /\ rs_state = "deleting"
    /\ "delete" \in store_ops

(***************************************************************************)
(* Claims about chat, checked under SpecChat.                              *)
(***************************************************************************)
\* the value is one of the two apologetic strings of chat: the apology of its
\* except clause, or the fallback text of _call_ollama_api
IsApology(v) ==
    /\ v.type = "str"
    /\ \/ v.text = NoResponseText
       \/ Len(v.text) = 2 /\ v.text[1] = "Sorry, I encountered an error: "

\* the HTTP call of the current chat failed: it raised, or its response
\* lacks the completion text
LlmFailed == ch_llm.kind \in LlmFailureKinds

\* C8: chat never raises to its caller: once the LLM call has been made chat
\* has returned, whatever the search and the LLM call did, and the value
\* returned is a string.
C8_ChatReturnsString ==
    /\ ch_state # "raised"
    /\ llm_calls > 0 => ch_state = "returned"
    /\ ch_state = "returned" => ch_ret.type = "str"

\* C8 witness: the search raised and the LLM call raised, chat returned a
\* string
C8_Witness ==
    /\ ch_state = "returned"
    /\ search_failed
    /\ ch_llm.kind = "network"
    /\ ch_ret.type = "str"

\* C9 as stated: whenever the search or the LLM call of a chat failed, the
\* value chat returned is an apologetic failure string.
C9_AnyFailureApologises ==
    (ch_state = "returned" /\ (search_failed \/ LlmFailed)) => IsApology(ch_ret)

\* C9 amended: whenever the LLM call of a chat failed, the value chat
\* returned is an apologetic failure string; when only the search failed,
\* chat built its prompt with the no-information context and returned the
\* stripped completion text of the LLM.
C9_LlmFailureApologises ==
    ch_state = "returned" =>
      /\ LlmFailed => IsApology(ch_ret)
      /\ (search_failed /\ ~LlmFailed) =>
           /\ ch_prompt.context.kind = "no_information"
           /\ ch_ret = Str(Strip(ch_llm.text))
           /\ ~IsApology(ch_ret)

\* C9 witness: the search returned records, the LLM answered with a non-2xx
\* status, chat returned the apology of its except clause
C9_Witness ==
    /\ ch_state = "returned"
    /\ ~search_failed
    /\ ch_memories.results # <<>>
    /\ ch_llm.kind = "http_error"
    /\ ch_ret = Str(ErrorApology("http_error"))

\* the one search of the current chat
TheSearch == search_calls[1]

\* C19 as stated: each chat issues exactly one Fact Store search, before any
\* LLM call and followed by at most one LLM call, with the caller's query,
\* the caller's user_id and a limit equal to the max_context_memories value
\* the caller passed, for every value passed; the default is the limit only
\* when the caller passed none.
C19_SearchWithCallersLimit ==
    /\ Len(search_calls) <= 1
    /\ llm_calls <= 1
    /\ llm_calls > 0 => Len(search_calls) = 1
    /\ ch_state \in {"searched", "returned"} =>
         /\ Len(search_calls) = 1
         /\ TheSearch.query = ch_query
         /\ UserGiven(ch_arg_user) => TheSearch.user_id = ch_arg_user
         /\ ch_arg_limit # NoneLimit => TheSearch.limit = ch_arg_limit
         /\ ch_arg_limit = NoneLimit => TheSearch.limit = DefaultMaxContext

\* C20: the prompt chat sends to the LLM holds the query of the caller and
\* the instruction that "I", "me", "my" and "mine" refer to the user; its
\* context block is the no-information sentence about the user exactly when
\* the search gave no result, and otherwise it is headed "Facts about" the
\* user and lists the text of every result, in the order of the search.
C20_PromptContents ==
    llm_calls > 0 =>
      /\ ch_prompt.question = ch_query
      /\ ch_prompt.pronouns_refer_to = ch_user
      /\ ch_prompt.context.about = ch_user
      /\ ch_prompt.context.kind = "no_information" <=> Len(ch_memories.results) = 0
      /\ Len(ch_memories.results) > 0 =>
           /\ ch_prompt.context.kind = "facts"
           /\ ch_prompt.context.facts = ch_memories.results

\* C20 witness: the search returned two different facts for a user the
\* caller named; the prompt sent to the LLM lists both in that order
C20_Witness ==
    /\ llm_calls > 0
    /\ ch_arg_user = "alice"
    /\ ch_memories.results = <<<<"a", "a">>, <<"a">>>>
    /\ ch_prompt.context =
         [kind |-> "facts", about |-> "alice", facts |-> <<<<"a", "a">>, <<"a">>>>]
    /\ ch_prompt.pronouns_refer_to = "alice"

(***************************************************************************)
(* Claims about reset_memories, checked under SpecReset.                   *)
(***************************************************************************)
\* the memory.delete calls of the current reset_memories that succeeded
SuccessfulDeletes ==
    Cardinality({j \in 1..Len(delete_calls) : delete_calls[j].ok})

\* C10: reset_memories fetches the records of the user once, calls delete
\* once for each fetched record in turn whether or not earlier deletes
\* failed, and returns the number of deletes that succeeded, which is at
\* most the number of fetched records; with nothing fetched it returns 0
\* and calls no delete.
C10_ResetCounts ==
    /\ Len(getall_calls) <= 1
    /\ rs_state \in {"deleting", "returned"} => getall_calls = <<rs_user>>
    /\ Len(delete_calls) = rs_i
    /\ rs_i <= Len(rs_records)
    /\ \A j \in 1..Len(delete_calls) : delete_calls[j].memory_id = rs_records[j]
    /\ deleted_count = SuccessfulDeletes
    /\ rs_state = "returned" =>
         /\ Len(delete_calls) = Len(rs_records)
         /\ rs_ret = SuccessfulDeletes
         /\ rs_ret <= Len(rs_records)
         /\ rs_records = <<>> => (rs_ret = 0 /\ delete_calls = <<>>)

\* C10 witness: three records fetched, the first and the third delete
\* raised, the second succeeded, 1 returned
C10_Witness ==
    /\ rs_state = "returned"
    /\ Len(rs_records) = 3
    /\ Len(delete_calls) = 3
    /\ ~delete_calls[1].ok
    /\ delete_calls[2].ok
    /\ ~delete_calls[3].ok
    /\ rs_ret = 1

(***************************************************************************)
(* Claims about search_memories and get_all_memories, checked under        *)
(* SpecQuery.                                                              *)
(***************************************************************************)
\* C11: an invocation of search_memories or get_all_memories makes exactly
\* one backend call and returns without raising; when the backend call raised
\* the value returned is None, which holds no record, and otherwise it is what
\* the backend returned.
C11_OneCallNoRaise ==
    qm_op # "none" =>
      /\ Len(qm_backend) = 1
      /\ qm_backend[1].op = qm_op
      /\ qm_state = "returned"
      /\ qm_ret.kind # "raise"
      /\ qm_outcome.kind = "raise" => (qm_ret = NoneMemories /\ NoResults(qm_ret))
      /\ qm_outcome.kind # "raise" => qm_ret = qm_outcome

\* C11 witness: memory.search raised, search_memories returned None after
\* that one call
C11_Witness ==
    /\ qm_op = "search"
    /\ qm_outcome.kind = "raise"
    /\ Len(qm_backend) = 1
    /\ qm_state = "returned"
    /\ qm_ret = NoneMemories

(***************************************************************************)
(* Claims about extract_sections, checked under SpecSections.              *)
(***************************************************************************)
\* the line is a heading line: it matches ^(#{1,3})\s+(.+)$
HeadingLine(line) == HeaderMatch(line).matched

\* the document has no heading line
Headerless(text) ==
    \A i \in 1..Len(SplitLines(text)) : ~HeadingLine(SplitLines(text)[i])

NonBlank(line) == Strip(line) # <<>>

\* what a line of a document amounts to, whatever its heading marker and the
\* whitespace around it look like
ItemOfLine(line) ==
    IF HeadingLine(line)
    THEN [kind |-> "heading", level |-> HeaderMatch(line).level,
          text |-> HeaderMatch(line).header]
    ELSE [kind |-> "text", level |-> 0, text |-> Strip(line)]

\* the non-blank lines of a text, as items
ItemsOfText(text) ==
    LET lines == SelectSeq(SplitLines(text), NonBlank)
    IN [i \in 1..Len(lines) |-> ItemOfLine(lines[i])]

\* the non-blank lines of a body, which are no headings, as items
ItemsOfBody(content) ==
    LET lines == SelectSeq(SplitLines(content), NonBlank)
    IN [i \in 1..Len(lines) |-> [kind |-> "text", level |-> 0, text |-> Strip(lines[i])]]

\* the sections written back in order: heading marker and heading, then
\* body; the section of level 0 has no heading of its own to write
RECURSIVE ItemsOfSections(_)
ItemsOfSections(sections) ==
    IF sections = <<>> THEN <<>>
    ELSE LET sec == Head(sections) IN
           (IF sec.level > 0
            THEN <<[kind |-> "heading", level |-> sec.level, text |-> sec.header]>>
            ELSE <<>>)
           \o ItemsOfBody(sec.content)
           \o ItemsOfSections(Tail(sections))

\* C16: writing the sections extract_sections returned back in order gives
\* the non-blank lines of the document in their order, up to the form of the
\* heading markers and to surrounding whitespace: no line of the document is
\* lost or duplicated.
C16_RoundTrip ==
    md_state = "returned" => ItemsOfSections(md_sections) = ItemsOfText(md_text)

(***************************************************************************)
(* Claims about extract_conversation_entries, checked under SpecEntries.   *)
(***************************************************************************)
\* the line starts with a bullet marker, indented or not
BulletLine(line) == LStrip(line) # <<>> /\ Head(LStrip(line)) \in BulletChars

\* the body is not blank and none of its lines starts with a bullet marker
Unbulleted(body) ==
    /\ Strip(body) # <<>>
    /\ \A i \in 1..Len(SplitLines(body)) : ~BulletLine(SplitLines(body)[i])

\* C17: for a body that is not blank and has no bullet marker,
\* extract_conversation_entries returns as many entries as the body has
\* non-blank lines, each without timestamp.
C17_FallbackEntries ==
    (en_state = "returned" /\ Unbulleted(en_body)) =>
      /\ Len(en_entries) = Len(SelectSeq(SplitLines(en_body), NonBlank))
      /\ \A i \in 1..Len(en_entries) : ~en_entries[i].timestamp

\* C26 as stated: every entry extract_conversation_entries returns, for any
\* section body, has a content that is not empty and has no leading or
\* trailing whitespace.
C26_ContentNonEmpty ==
    en_state = "returned" =>
      \A i \in 1..Len(en_entries) :
        /\ en_entries[i].content # <<>>
        /\ Strip(en_entries[i].content) = en_entries[i].content

\* the stripped texts of the bullets of the body
BulletTextsOf(body) ==
    [i \in 1..Len(BulletTexts(body, 1)) |-> Strip(BulletTexts(body, 1)[i])]

\* the timestamp parse_date finds in the text is at its front: one of the
\* first grammar, or one of the third in a text that has none of the first
TimestampAtFront(t) ==
    /\ t # <<>>
    /\ \/ Head(t) = "T"
       \/ Head(t) = "U" /\ \A k \in 1..Len(t) : t[k] # "T"

\* C27 as stated: for every bullet in which parse_date finds a timestamp, of
\* whichever grammar, the content of the entry is the text of the bullet
\* without that timestamp and the separators after it, nothing else being
\* removed; for every bullet without timestamp it is the whole text.
C27_TimestampStripped ==
    (en_state = "returned" /\ BulletTextsOf(en_body) # <<>>) =>
      /\ Len(en_entries) = Len(BulletTextsOf(en_body))
      /\ \A i \in 1..Len(en_entries) :
           LET t == BulletTextsOf(en_body)[i] IN
             /\ TimestampAtFront(t) =>
                  /\ en_entries[i].timestamp
                  /\ en_entries[i].content = Strip(Tail(t))
             /\ ~ParseDate(t) =>
                  /\ ~en_entries[i].timestamp
                  /\ en_entries[i].content = t

(***************************************************************************)
(* Claims about parse_date, checked under SpecParseDate.                   *)
(***************************************************************************)
\* the patterns that match the text
Matching(text) == {g \in Grammars : FirstMatch(text, g) # 0}

\* the patterns whose leftmost match in the text is parsed by a format
Parsing(text) == {g \in Matching(text) : Parses(text[FirstMatch(text, g)])}

\* the first pattern of the set, in the order of date_patterns
FirstOf(gs) == CHOOSE g \in gs : \A h \in gs : g <= h

\* C28 as stated: the result of parse_date is decided by the first pattern
\* that matches: the datetime of its match when a format parses it and None
\* when no format does; None when no pattern matches; it never raises.
C28_FirstMatchingGrammar ==
    /\ dt_state # "raised"
    /\ dt_state = "returned" =>
         IF Matching(dt_text) = {} THEN dt_ret = NoDate
         ELSE LET i == FirstMatch(dt_text, FirstOf(Matching(dt_text))) IN
                dt_ret = (IF Parses(dt_text[i]) THEN DateAt(i) ELSE NoDate)

\* C28 amended: parse_date tries the patterns in their fixed order and its
\* result is decided by the first pattern whose leftmost match is parsed by
\* a format: the datetime of that match; a pattern whose match fails every
\* format is passed over and the next pattern is tried; None is returned
\* when no pattern has a match that parses, and parse_date never raises.
C28_FirstParsingGrammar ==
    /\ dt_state # "raised"
    /\ dt_state = "returned" =>
         IF Parsing(dt_text) = {} THEN dt_ret = NoDate
         ELSE dt_ret = DateAt(FirstMatch(dt_text, FirstOf(Parsing(dt_text))))

\* C28 witness: the first pattern matches a text no format parses, the
\* second pattern matches one that parses, and its datetime is returned
C28_Witness ==
    /\ dt_state = "returned"
    /\ dt_text = <<"B1", "a", "G2">>
    /\ dt_ret = DateAt(3)

====
